---- MODULE Spec2Model ----
(***************************************************************************)
(* Packdeal: EAN-13 normalisation (utils.py), the record binder            *)
(* apply_mapping_to_svg and the Generate / Export loop (app.py).           *)
(*                                                                         *)
(* Strings are sequences of characters; a character is a TLA+ string.      *)
(* Python's None is the one-element sequence None, which is no string of   *)
(* characters of the model.                                                *)
(***************************************************************************)
EXTENDS Integers, Sequences, FiniteSets, TLC

VARIABLES
    value,      \* utils.py: the argument of normalize_to_ean13
    code,       \* its result (a string, or None)
    again,      \* normalize_to_ean13 applied to that result
    rendered,   \* outcome of render_barcode_svg_text(value)
    ean_pc,     \* which of the calls above have been made
    sanitized_template, \* app.py: the template text every bind parses
    session_mapping,    \* st.session_state.mapping: placeholder -> entry
    rec,        \* the record of a single apply_mapping_to_svg call
    lib_outcome, \* what the barcode library did during that call
    filled,     \* the call's outcome: raised, or the bound document
    bind_pc,    \* whether the call has been made
    df,         \* the rows of the data file, as records
    idx,        \* the row the Generate loop is at (1-based)
    files_out,  \* the loop's files_out: <<name, contents>> entries
    pdf_pages,  \* the loop's pdf_pages
    warnings,   \* st.warning / st.success messages of the run
    tree,       \* the element tree the last bind of the run worked on
    attempted,  \* the rows apply_mapping_to_svg was called for, in order
    gen_pc,     \* "loop", then "done", or "aborted" by an uncaught exception
    export_format,
    export_mode,
    name_field_hint,
    frag_in,    \* the barcode fragment handed to _remove_white_background_rects
    frag_out,   \* the fragment once the function has run
    tpl_text,   \* the text find_placeholders scans, character by character
    placeholders, \* find_placeholders' result
    svg_upload, \* the uploaded template bytes given to sanitize_for_preview
    sanitize_out, \* its outcome: raised, or the text and the root it returns
    raw_text,   \* the sanitizer's raw before line 114, character by character
    raw_subbed, \* raw after line 114
    mapping_file, \* the uploaded mapping document: its name and contents
    exported,   \* the mapping documents the download buttons offer
    map_before, \* st.session_state.mapping when the upload handler started
    map_msg     \* the handler's st.success / st.error

ean_vars == <<value, code, again, rendered, ean_pc>>

tpl_vars == <<sanitized_template, session_mapping>>

bind_vars == <<rec, lib_outcome, filled, bind_pc>>

gen_vars == <<df, idx, files_out, pdf_pages, warnings, tree, attempted, gen_pc,
              export_format, export_mode, name_field_hint>>

rect_vars == <<frag_in, frag_out>>

find_vars == <<tpl_text, placeholders>>

san_vars == <<svg_upload, sanitize_out, raw_text, raw_subbed>>

map_vars == <<mapping_file, exported, map_before, map_msg>>

io_vars == <<rect_vars, find_vars, san_vars, map_vars>>

vars == <<ean_vars, tpl_vars, bind_vars, gen_vars, io_vars>>

-----------------------------------------------------------------------------
(* Bounds of the model.                                                    *)

\* inputs of the encoder hold between 12 - MaxDelta and 13 + MaxDelta digits
MaxDelta == 1

-----------------------------------------------------------------------------
(* Characters.                                                             *)

None == <<"None">>
Unset == <<"Unset">>
Idle == <<"idle">>

\* the parts of the program a run does not exercise stay as they start
RectIdle == frag_in = Idle /\ frag_out = Idle

FindIdle == tpl_text = Idle /\ placeholders = Idle

SanIdle ==
    svg_upload = Idle /\ sanitize_out = Idle /\ raw_text = Idle /\ raw_subbed = Idle

MapIdle ==
    mapping_file = Idle /\ exported = Idle /\ map_before = Idle /\ map_msg = Idle

EanIdle ==
    /\ value = Idle /\ code = Idle /\ again = Idle /\ rendered = Idle
    /\ ean_pc = "idle"

BindIdle == rec = Idle /\ lib_outcome = Idle /\ filled = Idle /\ bind_pc = "idle"

GenIdle ==
    /\ df = Idle /\ idx = 0 /\ files_out = Idle /\ pdf_pages = Idle
    /\ warnings = Idle /\ tree = Idle /\ attempted = Idle /\ gen_pc = "idle"
    /\ export_format = "" /\ export_mode = "" /\ name_field_hint = ""

TplIdle == sanitized_template = Idle /\ session_mapping = Idle

IoIdle == RectIdle /\ FindIdle /\ SanIdle /\ MapIdle

DigitChars == <<"0", "1", "2", "3", "4", "5", "6", "7", "8", "9">>

AsciiDigits == {DigitChars[i] : i \in 1..10}

\* U+00B2 SUPERSCRIPT TWO and U+0663 ARABIC-INDIC DIGIT THREE: characters
\* other than 0-9 for which Python's str.isdigit() is True.
UnicodeDigits == {"sup2", "arabic3"}

\* characters for which str.isdigit() is False
OtherChars == {"-", " "}

\* Python's ord()
ord(ch) ==
    IF ch \in AsciiDigits THEN 47 + (CHOOSE i \in 1..10 : DigitChars[i] = ch)
    ELSE IF ch = "sup2" THEN 178
    ELSE IF ch = "arabic3" THEN 1635
    ELSE IF ch = "-" THEN 45
    ELSE 32

\* Python's str.isdigit() on one character
isdigit(ch) == ch \in AsciiDigits \cup UnicodeDigits

\* ''.join(ch for ch in str(value) if ch.isdigit())
StripNonDigits(s) == SelectSeq(s, isdigit)

-----------------------------------------------------------------------------
(* utils.py: EAN-13 helpers.                                               *)

\* a slip: the weights the other way round
weight_swapped(i) == IF i % 2 = 0 THEN 3 ELSE 1

\* weight = 1 if (i % 2 == 0) else 3, i the 0-based index
weight(i) == IF i % 2 = 0 THEN 1 ELSE 3

RECURSIVE weighted_total(_, _)
\* the loop of calculate_ean13_checksum over the first n characters
weighted_total(number12, n) ==
    IF n = 0 THEN 0
    ELSE weighted_total(number12, n - 1)
            + (ord(number12[n]) - 48) * weight(n - 1)

\* calculate_ean13_checksum: the check digit as a character, "ValueError" for
\* the raise on a wrong length (normalize_to_ean13 calls it with 12 digits)
calculate_ean13_checksum(number12) ==
    LET s == StripNonDigits(number12)
    IN  IF Len(s) # 12 THEN "ValueError"
        ELSE DigitChars[((10 - (weighted_total(s, 12) % 10)) % 10) + 1]

\* a slicing slip: the 13-digit branch drops the first digit instead of the last
normalize_to_ean13_slice(val) ==
    LET s == StripNonDigits(val)
    IN  IF Len(s) = 12 THEN Append(s, calculate_ean13_checksum(s))
        ELSE IF Len(s) = 13
             THEN Append(SubSeq(s, 2, 13), calculate_ean13_checksum(SubSeq(s, 2, 13)))
             ELSE None

\* a slip: longer digit strings are cut to 13 instead of being refused
normalize_to_ean13_cut(val) ==
    LET s == StripNonDigits(val)
    IN  IF Len(s) = 12 THEN Append(s, calculate_ean13_checksum(s))
        ELSE IF Len(s) >= 13
             THEN LET chk == calculate_ean13_checksum(SubSeq(s, 1, 12))
                  IN  IF chk = s[13] THEN SubSeq(s, 1, 13)
                      ELSE Append(SubSeq(s, 1, 12), chk)
             ELSE None

normalize_to_ean13(val) ==
    LET s == StripNonDigits(val)
    IN  IF Len(s) = 12 THEN Append(s, calculate_ean13_checksum(s))
        ELSE IF Len(s) = 13
             THEN LET chk == calculate_ean13_checksum(SubSeq(s, 1, 12))
                  IN  IF chk = s[13] THEN s ELSE Append(SubSeq(s, 1, 12), chk)
             ELSE None

\* mm_to_px's round(): Python rounds to nearest, ties to even; n >= 0, d > 0
round_div(n, d) ==
    LET q == n \div d
        r == n % d
    IN  IF 2 * r > d THEN q + 1
        ELSE IF 2 * r < d THEN q
        ELSE IF q % 2 = 0 THEN q ELSE q + 1

DPI_DEFAULT == 300

\* mm_to_px(mm) = max(1, int(round(mm / 25.4 * dpi))); mm a whole number of
\* millimetres, so mm / 25.4 * 300 = mm * 3000 / 254
mm_to_px(mm) ==
    LET px == IF mm >= 0 THEN round_div(mm * 10 * DPI_DEFAULT, 254)
              ELSE 0 - round_div((0 - mm) * 10 * DPI_DEFAULT, 254)
    IN  IF px > 1 THEN px ELSE 1

-----------------------------------------------------------------------------
(* Element trees (lxml).  An element has a tag (local name), attributes    *)
(* (a function from names to strings; an absent attribute is not in its    *)
(* domain), a transform attribute held as a sequence of items, direct      *)
(* text, children and tail text.  Text is a sequence of chunks: a          *)
(* placeholder token, a line break "\n", or a literal run without either.  *)

NoAttrs == [a \in {} |-> ""]

Elem(tag, attrs, text, kids, tail) ==
    [tag |-> tag, attrs |-> attrs, transform |-> <<>>,
     text |-> text, kids |-> kids, tail |-> tail]

\* el.get(name): None and "" are both falsy where the code reads attributes
\* with `or`, `if` or a "" default, so an absent attribute reads as ""
attr_get(el, name) == IF name \in DOMAIN el.attrs THEN el.attrs[name] ELSE ""

\* one item of a transform attribute: literal text, or text with a ratio
\* num/den as its argument (the decimal expansion of a quotient of floats
\* is not modelled)
TfText(t) == [text |-> t, num |-> 0, den |-> 0]
TfRatio(t, n, d) == [text |-> t, num |-> n, den |-> d]

\* float() of the attribute strings of the model; any other string raises
FloatLiterals == {"0", "3", "4", "5", "10", "20", "600"}

float_ok(s) == s \in FloatLiterals

float_of(s) ==
    CASE s = "0" -> 0 [] s = "3" -> 3 [] s = "4" -> 4 [] s = "5" -> 5
      [] s = "10" -> 10 [] s = "20" -> 20 [] s = "600" -> 600

\* str() of a float holding a whole number: 5.0 -> "5.0"
float_str(n) == ToString(n) \o ".0"

\* str() of a float given in hundredths, 0 <= h: 100 -> "1.0", 50 -> "0.5",
\* 125 -> "1.25"
float_str100(h) ==
    LET ip == h \div 100
        fp == h % 100
    IN  ToString(ip) \o "." \o
        (IF fp % 10 = 0 THEN ToString(fp \div 10)
         ELSE IF fp < 10 THEN "0" \o ToString(fp) ELSE ToString(fp))

-----------------------------------------------------------------------------
(* Placeholders, records and mappings.                                     *)

\* the tokens the pattern \{\{\s*([A-Za-z0-9_\-\.]+)\s*\}\} matches, by name
PlaceholderTokens ==
    {"{{sku}}", "{{ sku }}", "{{city}}", "{{ city }}", "{{id}}"}

ph_name(tok) ==
    CASE tok \in {"{{sku}}", "{{ sku }}"} -> "sku"
      [] tok \in {"{{city}}", "{{ city }}"} -> "city"
      [] tok = "{{id}}" -> "id"

\* re.findall(pattern, content): the names, in order, duplicates kept
find_matches(content) ==
    LET toks == SelectSeq(content, LAMBDA c : c \in PlaceholderTokens)
    IN  [i \in 1..Len(toks) |-> ph_name(toks[i])]

\* A value of a record: t is its Python type ("str", "int", "none"), s is
\* str(value).  A column the record lacks holds Missing.
StrVal(s) == [t |-> "str", s |-> s]
IntVal(s) == [t |-> "int", s |-> s]
NoneVal == [t |-> "none", s |-> <<"None">>]
Missing == [t |-> "missing", s |-> <<>>]

\* record.get(col, default): columns outside the model's columns are absent
rec_get(record, col, default) ==
    IF col \in DOMAIN record /\ record[col] # Missing THEN record[col]
    ELSE default

\* cfg.get(key, default) and mapping.get(ph, default)
cfg_get(cfg, key, default) == IF key \in DOMAIN cfg THEN cfg[key] ELSE default

NoCfg == [k \in {} |-> ""]

\* `x or default` on a number
or_num(x, default) == IF x = 0 THEN default ELSE x

\* stands for a field value float() rejects, such as the string "abc"
NotFloat == -888888

\* lines 321-332: float(x or default) inside try, the default when it raises
float_or(x, default) == IF x = NotFloat THEN default ELSE or_num(x, default)

\* str.strip() == "" : only whitespace
Whitespace == {" ", "\n"}

is_blank(s) == \A i \in 1..Len(s) : s[i] \in Whitespace

\* a replacement template that re.sub rejects ("bad escape"): a backslash
\* followed by a letter that is no escape
BadEscapes == {"\\D"}

repl_raises(s) == \E i \in 1..Len(s) : s[i] \in BadEscapes

\* the replacement template as re.sub expands it: backslash-n is a line
\* break; text without a backslash stands for itself
expand_template(repl) ==
    [i \in 1..Len(repl) |-> IF repl[i] = "\\n" THEN "\n" ELSE repl[i]]

RECURSIVE sub_all(_, _, _)
\* re.sub(r"\{\{\s*%s\s*\}\}" % ph, repl, text): every token of that name
sub_all(text, ph, repl) ==
    IF text = <<>> THEN <<>>
    ELSE IF Head(text) \in PlaceholderTokens /\ ph_name(Head(text)) = ph
         THEN repl \o sub_all(Tail(text), ph, repl)
         ELSE <<Head(text)>> \o sub_all(Tail(text), ph, repl)

RECURSIVE splitlines(_)
\* str.splitlines(): the lines without their breaks; a final line break opens
\* no further line, and "" has no lines
splitlines(s) ==
    IF s = <<>> THEN <<>>
    ELSE LET brk == {i \in 1..Len(s) : s[i] = "\n"}
         IN  IF brk = {} THEN <<s>>
             ELSE LET k == CHOOSE i \in brk : \A j \in brk : i <= j
                  IN  <<SubSeq(s, 1, k - 1)>> \o splitlines(SubSeq(s, k + 1, Len(s)))

RECURSIVE itertext(_)
RECURSIVE itertext_kids(_)
\* "".join(el.itertext()): the text of el and of its descendants with their
\* tails, in document order
itertext(el) == el.text \o itertext_kids(el.kids)

itertext_kids(kids) ==
    IF kids = <<>> THEN <<>>
    ELSE itertext(Head(kids)) \o Head(kids).tail \o itertext_kids(Tail(kids))

-----------------------------------------------------------------------------
(* utils.render_barcode_svg_text and the fragment python-barcode writes.   *)

\* What the barcode library does with a canonical code is no code of this
\* repository: it fails or it writes an <svg> whose root carries the given
\* size attributes.
LibOutcomes ==
    {[fail |-> TRUE, attrs |-> NoAttrs],
     [fail |-> FALSE, attrs |-> [a \in {"width", "height"} |->
                                   IF a = "width" THEN "44mm" ELSE "23mm"]],
     [fail |-> FALSE, attrs |-> [a \in {"viewBox"} |-> "0 0 113 59"]],
     [fail |-> FALSE, attrs |-> [a \in {"viewBox"} |-> "0 0 0 0"]]}

\* the written fragment: a group with a white backdrop, a bar and the digits
lib_fragment(canonical, lib) ==
    Elem("svg", lib.attrs, <<>>,
         <<Elem("g", [a \in {"id"} |-> "barcode_group"], <<>>,
                <<Elem("rect", [a \in {"width", "height", "style"} |->
                                  IF a = "style" THEN "fill:white" ELSE "100%"],
                       <<>>, <<>>, <<>>),
                  Elem("rect", [a \in {"width", "height", "style"} |->
                                  IF a = "style" THEN "fill:black;"
                                  ELSE IF a = "width" THEN "0.330mm" ELSE "15.000mm"],
                       <<>>, <<>>, <<>>),
                  Elem("text", NoAttrs, canonical, <<>>, <<>>)>>,
                <<>>)>>,
         <<>>)

\* render_barcode_svg_text(ean): raises when the value does not normalise,
\* else hands the canonical code to the library
render_barcode_svg_text(ean, lib) ==
    LET canonical == normalize_to_ean13(ean)
    IN  IF canonical = None
        THEN [raised |-> TRUE, err |-> <<"EAN not normalizable: ">> \o ean,
              canonical |-> None, frag |-> Elem("svg", NoAttrs, <<>>, <<>>, <<>>)]
        ELSE IF lib.fail
        THEN [raised |-> TRUE, err |-> <<"barcode library error">>,
              canonical |-> canonical, frag |-> Elem("svg", NoAttrs, <<>>, <<>>, <<>>)]
        ELSE [raised |-> FALSE, err |-> <<>>,
              canonical |-> canonical, frag |-> lib_fragment(canonical, lib)]

-----------------------------------------------------------------------------
(* app.py: _remove_white_background_rects and _parse_svg_dimensions.       *)

\* (el.get("fill") or "").strip().lower() on the fill values of the model
fill_lower(f) ==
    CASE f = "#FFF" -> "#fff" [] f = "WHITE" -> "white"
      [] f = " white " -> "white" [] OTHER -> f

\* "fill:#fff" in style or "fill:#ffffff" in style or "fill:white" in style
style_has_white(style) ==
    style \in {"fill:white", "fill:#fff", "fill:#ffffff", "fill:#ffffff;stroke:none"}

\* whether the loop puts the rect el on its to_remove list
rect_to_remove(el) ==
    LET fill == fill_lower(attr_get(el, "fill"))
        style == attr_get(el, "style")
        w_s == IF attr_get(el, "width") = "" THEN "0" ELSE attr_get(el, "width")
        h_s == IF attr_get(el, "height") = "" THEN "0" ELSE attr_get(el, "height")
    IN  \/ /\ fill \in {"#fff", "#ffffff", "white", "rgb(255,255,255)", ""}
           /\ \/ style_has_white(style)
              \/ fill \in {"#fff", "#ffffff", "white"}
        \/ /\ float_ok(w_s) /\ float_ok(h_s)
           /\ float_of(w_s) > 0 /\ float_of(h_s) > 0
           /\ (float_of(w_s) > 500 \/ float_of(h_s) > 500)

RECURSIVE remove_rects(_)
\* the children left under a parent once every listed rect is removed
remove_rects(kids) ==
    IF kids = <<>> THEN <<>>
    ELSE LET el == Head(kids)
         IN  IF el.tag = "rect" /\ rect_to_remove(el)
             THEN remove_rects(Tail(kids))
             ELSE <<[el EXCEPT !.kids = remove_rects(el.kids)]>>
                     \o remove_rects(Tail(kids))

\* the fragment root is never removed (it has no parent)
_remove_white_background_rects(frag_root) ==
    [frag_root EXCEPT !.kids = remove_rects(frag_root.kids)]

\* _attr_to_px on the size strings of the model; 0 stands for None
attr_to_px(v) ==
    CASE v = "" -> 0
      [] v = "44mm" -> mm_to_px(44)
      [] v = "23mm" -> mm_to_px(23)
      [] v = "200px" -> 200
      [] OTHER -> IF float_ok(v) THEN float_of(v) ELSE 0

\* [float(p) for p in vb.strip().split()] on the viewBox strings of the model
viewbox_parts(vb) ==
    CASE vb = "0 0 113 59" -> <<0, 0, 113, 59>>
      [] vb = "0 0 0 0" -> <<0, 0, 0, 0>>
      [] OTHER -> <<>>

\* _parse_svg_dimensions: <<width, height>> of the fragment root
_parse_svg_dimensions(root) ==
    LET vb == attr_get(root, "viewBox")
        parts == viewbox_parts(vb)
        wpx == attr_to_px(attr_get(root, "width"))
        hpx == attr_to_px(attr_get(root, "height"))
    IN  IF vb # "" /\ Len(parts) = 4 THEN <<parts[3], parts[4]>>
        ELSE IF wpx # 0 /\ hpx # 0 THEN <<wpx, hpx>>
        ELSE <<1000, 1000>>

-----------------------------------------------------------------------------
(* app.py: apply_mapping_to_svg.  Numbers of a mapping entry are whole     *)
(* (dx, dy, height_mm) or hundredths (scale: 100 is 1.0).                  *)

\* mapping.get(ph, {}).get("type", "Text").startswith("Barcode")
is_barcode_type(t) == t \in {"Barcode", "Barcode EAN13"}

map_type(mapping, ph) == cfg_get(cfg_get(mapping, ph, NoCfg), "type", "Text")

\* cfg = mapping.get(ph, {"col": ph, "align": "Left"})
cfg_of(mapping, ph) ==
    cfg_get(mapping, ph, [k \in {"col", "align"} |-> IF k = "col" THEN ph ELSE "Left"])

\* the record's value for placeholder ph: record.get(cfg.get("col", ph), "")
bound_value(mapping, record, ph) ==
    rec_get(record, cfg_get(cfg_of(mapping, ph), "col", ph), StrVal(<<>>))

\* el.set(name, v)
attr_set(el, name, v) ==
    [el EXCEPT !.attrs = [a \in DOMAIN el.attrs \cup {name} |->
                            IF a = name THEN v ELSE el.attrs[a]]]

\* lines 298-301: children removed, text = ""
\* a slip: only the element's own text is emptied, its runs stay
clear_text_own(text_elem) == [text_elem EXCEPT !.text = <<>>]

\* lines 296-302: every child is removed and the text emptied
clear_text(text_elem) == [text_elem EXCEPT !.kids = <<>>, !.text = <<>>]

\* lines 374-377: the element keeps its place and shows the error
barcode_error(text_elem, err) ==
    [text_elem EXCEPT !.kids = <<>>,
                      !.text = <<"[barcode svg error: ">> \o err \o <<"]">>]

\* text_elem.get("x") or text_elem.get("dx") or "0", through float(), 0.0
\* when float() raises
anchor_of(text_elem, a, da) ==
    LET v == IF attr_get(text_elem, a) # "" THEN attr_get(text_elem, a)
             ELSE IF attr_get(text_elem, da) # "" THEN attr_get(text_elem, da)
             ELSE "0"
    IN  IF float_ok(v) THEN float_of(v) ELSE 0

\* lines 347-357 on the height only: scale_by_height * cfg_scale as the
\* ratio <<numerator, denominator>>
total_scale(desired_h_px, orig_h, cfg_scale) ==
    IF orig_h = 0 THEN <<cfg_scale, 100>>
    ELSE <<desired_h_px * cfg_scale, orig_h * 100>>

\* a slip: the fragment's width taken for its height
intrinsic_height_w(svg_bar_root) == _parse_svg_dimensions(svg_bar_root)[1]

\* orig_h of `orig_w, orig_h = _parse_svg_dimensions(svg_bar)`
intrinsic_height(svg_bar_root) == _parse_svg_dimensions(svg_bar_root)[2]

\* lines 360-366: the group with its transform and the fragment's children
barcode_group(text_elem, cfg, svg_bar) ==
    LET height_mm == or_num(cfg_get(cfg, "height_mm", 25), 25)
        desired_h_px == mm_to_px(height_mm)
        xf == anchor_of(text_elem, "x", "dx")
        yf == anchor_of(text_elem, "y", "dy")
        cfg_dx == float_or(cfg_get(cfg, "dx", 0), 0)
        cfg_dy == float_or(cfg_get(cfg, "dy", 0), 0)
        cfg_scale == float_or(cfg_get(cfg, "scale", 100), 100)
        frag == _remove_white_background_rects(svg_bar.frag)
        sc == total_scale(desired_h_px, intrinsic_height(svg_bar.frag), cfg_scale)
    IN  [Elem("g", NoAttrs, <<>>, frag.kids, <<>>) EXCEPT
            !.transform =
                <<TfText("translate(" \o float_str(xf + cfg_dx) \o ","
                            \o float_str(yf + cfg_dy) \o ")"),
                  TfRatio("scale", sc[1], sc[2])>>]

\* a slip: the renderer's exception is not caught
bind_barcode_uncaught(text_elem, mapping, record, lib, ph) ==
    LET cfg == cfg_of(mapping, ph)
        val == bound_value(mapping, record, ph)
    IN  IF val.t = "none" \/ is_blank(val.s)
        THEN [raised |-> FALSE, el |-> clear_text(text_elem)]
        ELSE IF cfg_get(cfg, "height_mm", 25) = NotFloat
        THEN [raised |-> TRUE, el |-> text_elem]
        ELSE LET svg_bar == render_barcode_svg_text(val.s, lib)
             IN  IF svg_bar.raised
                 THEN [raised |-> TRUE, el |-> text_elem]
                 ELSE [raised |-> FALSE, el |-> barcode_group(text_elem, cfg, svg_bar)]

\* lines 293-378: the barcode path for the element's one placeholder ph;
\* float() of height_mm at line 305 stands outside every try
bind_barcode(text_elem, mapping, record, lib, ph) ==
    LET cfg == cfg_of(mapping, ph)
        val == bound_value(mapping, record, ph)
    IN  IF val.t = "none" \/ is_blank(val.s)
        THEN [raised |-> FALSE, el |-> clear_text(text_elem)]
        ELSE IF cfg_get(cfg, "height_mm", 25) = NotFloat
        THEN [raised |-> TRUE, el |-> text_elem]
        ELSE LET svg_bar == render_barcode_svg_text(val.s, lib)
             IN  IF svg_bar.raised
                 THEN [raised |-> FALSE, el |-> barcode_error(text_elem, svg_bar.err)]
                 ELSE [raised |-> FALSE, el |-> barcode_group(text_elem, cfg, svg_bar)]

RECURSIVE substitute(_, _, _, _)
\* lines 381-388: one re.sub per match, in order; raised when re.sub rejects
\* a value as replacement template
substitute(new_text, matches, mapping, record) ==
    IF matches = <<>> THEN [raised |-> FALSE, text |-> new_text]
    ELSE LET val == bound_value(mapping, record, Head(matches))
             repl == IF val.t = "none" THEN <<>> ELSE val.s
         IN  IF repl_raises(repl) THEN [raised |-> TRUE, text |-> <<>>]
             ELSE substitute(sub_all(new_text, Head(matches), expand_template(repl)),
                             Tail(matches), mapping, record)

\* lines 395-401: one tspan per line after the first
tspan_for(text_elem, ln) ==
    Elem("tspan",
         IF attr_get(text_elem, "x") # ""
         THEN [a \in {"x", "dy"} |-> IF a = "x" THEN attr_get(text_elem, "x") ELSE "1em"]
         ELSE [a \in {"dy"} |-> "1em"],
         ln, <<>>, <<>>)

\* a slip: the horizontal anchor is not handed to the line runs
set_lines_nox(text_elem, lines) ==
    [text_elem EXCEPT
        !.text = lines[1],
        !.kids = [i \in 1..(Len(lines) - 1) |->
                    Elem("tspan", [a \in {"dy"} |-> "1em"], lines[i + 1], <<>>, <<>>)]]

\* lines 391-401: old children dropped, first line as text, the rest as tspans
set_lines(text_elem, lines) ==
    [text_elem EXCEPT
        !.text = lines[1],
        !.kids = [i \in 1..(Len(lines) - 1) |-> tspan_for(text_elem, lines[i + 1])]]

\* align_map.get(align, "start")
text_anchor(align) ==
    CASE align = "Center" -> "middle" [] align = "Right" -> "end" [] OTHER -> "start"

\* lines 380-415: the text path
bind_text(text_elem, mapping, record, matches) ==
    LET sub == substitute(itertext(text_elem), matches, mapping, record)
        split == splitlines(sub.text)
        lines == IF split = <<>> THEN << <<>> >> ELSE split
        cfg0 == cfg_get(mapping, matches[1], NoCfg)
        dx == cfg_get(cfg0, "dx", 0)
        dy == cfg_get(cfg0, "dy", 0)
        scale_val == cfg_get(cfg0, "scale", 100)
        anchored == attr_set(set_lines(text_elem, lines), "text-anchor",
                             text_anchor(cfg_get(cfg0, "align", "Left")))
    IN  IF sub.raised THEN [raised |-> TRUE, el |-> text_elem]
        ELSE IF NotFloat \in {dx, dy, scale_val}
        THEN [raised |-> FALSE, el |-> anchored]
        ELSE [raised |-> FALSE,
              el |-> [anchored EXCEPT !.transform =
                        @ \o <<TfText("translate(" \o float_str(dx) \o ","
                                        \o float_str(dy) \o ")"),
                               TfText("scale(" \o float_str100(scale_val) \o ")")>>]]

\* lines 285-415: one text element of the loop
bind_elem(text_elem, mapping, record, lib) ==
    LET matches == find_matches(itertext(text_elem))
        barcode_placeholders ==
            SelectSeq(matches, LAMBDA ph : is_barcode_type(map_type(mapping, ph)))
    IN  IF matches = <<>> THEN [raised |-> FALSE, el |-> text_elem]
        ELSE IF barcode_placeholders # <<>> /\ Len(matches) = 1
                /\ is_barcode_type(map_type(mapping, barcode_placeholders[1]))
        THEN bind_barcode(text_elem, mapping, record, lib, barcode_placeholders[1])
        ELSE bind_text(text_elem, mapping, record, matches)

\* a slip: the tree is parsed once and every later call binds the same tree
parse_svg_shared(svg_text) ==
    IF gen_pc = "idle" \/ Len(attempted) = 0 THEN svg_text ELSE tree

\* etree.fromstring(svg_text): a tree of its own for every call.  The
\* template text is held as the tree it parses to.
parse_svg(svg_text) == svg_text

RECURSIVE bind_kids(_, _, _, _)
\* the loop over text_nodes: every <text> below the root, wherever it sits
bind_kids(kids, mapping, record, lib) ==
    [i \in 1..Len(kids) |->
        IF kids[i].tag = "text" THEN bind_elem(kids[i], mapping, record, lib)
        ELSE LET sub == bind_kids(kids[i].kids, mapping, record, lib)
             IN  [raised |-> \E j \in 1..Len(sub) : sub[j].raised,
                  el |-> [kids[i] EXCEPT !.kids = [j \in 1..Len(sub) |-> sub[j].el]]]]

\* apply_mapping_to_svg(svg_text, mapping, record): the serialised bound
\* tree, or raised when a step outside the barcode try block raises
apply_mapping_to_svg(svg_text, mapping, record, lib) ==
    LET root == parse_svg(svg_text)
        sub == bind_kids(root.kids, mapping, record, lib)
    IN  [raised |-> \E j \in 1..Len(sub) : sub[j].raised,
         doc |-> [root EXCEPT !.kids = [j \in 1..Len(sub) |-> sub[j].el]]]

-----------------------------------------------------------------------------
(* The encoder on its own: one value, normalised, normalised again, and    *)
(* rendered.                                                               *)

\* twelve digits whose first two vary; base_digits(0, 1) is 012345678901
base_digits(a, b) ==
    <<DigitChars[a + 1], DigitChars[b + 1],
      "2", "3", "4", "5", "6", "7", "8", "9", "0", "1">>

\* the first n of: the twelve digits, a thirteenth digit x, and sevens
digits_of(a, b, x, n) ==
    SubSeq(base_digits(a, b) \o <<DigitChars[x + 1]>>
              \o [i \in 1..MaxDelta |-> "7"], 1, n)

\* the same digits as typed or scanned: with separators, or with a
\* character that str.isdigit() accepts though it is not 0-9
decorate(s, how) ==
    CASE how = "plain" -> s
      [] how = "separators" -> <<s[1], "-">> \o Tail(s) \o <<" ">>
      [] how = "superscript" -> <<"sup2">> \o s
      [] how = "arabic" -> SubSeq(s, 1, Len(s) - 1) \o <<"arabic3">>

EanInputs ==
    {decorate(digits_of(a, b, x, n), how) :
        a \in 0..9, b \in 0..9, x \in 0..9,
        n \in (12 - MaxDelta)..(13 + MaxDelta),
        how \in {"plain", "separators", "superscript", "arabic"}}

InitEan ==
    /\ value \in EanInputs
    /\ code = Unset
    /\ again = Unset
    /\ rendered = Idle
    /\ ean_pc = "input"
    /\ sanitized_template = Idle /\ session_mapping = Idle
    /\ rec = Idle /\ lib_outcome = Idle /\ filled = Idle /\ bind_pc = "idle"
    /\ df = Idle /\ idx = 0 /\ files_out = Idle /\ pdf_pages = Idle
    /\ warnings = Idle /\ tree = Idle /\ attempted = Idle /\ gen_pc = "idle"
    /\ export_format = "" /\ export_mode = "" /\ name_field_hint = ""
    /\ IoIdle

\* code = normalize_to_ean13(value)
EanNormalize ==
    /\ ean_pc = "input"
    /\ code' = normalize_to_ean13(value)
    /\ ean_pc' = "normalized"
    /\ UNCHANGED <<value, again, rendered, tpl_vars, bind_vars, gen_vars, io_vars>>

\* the result fed back: normalize_to_ean13(code)
EanRenormalize ==
    /\ ean_pc = "normalized"
    /\ code # None
    /\ again' = normalize_to_ean13(code)
    /\ ean_pc' = "renormalized"
    /\ UNCHANGED <<value, code, rendered, tpl_vars, bind_vars, gen_vars, io_vars>>

\* render_barcode_svg_text(value), whatever the library then does
EanRender ==
    /\ ean_pc = "input"
    /\ \E l \in LibOutcomes : rendered' = render_barcode_svg_text(value, l)
    /\ ean_pc' = "rendered"
    /\ UNCHANGED <<value, code, again, tpl_vars, bind_vars, gen_vars, io_vars>>

NextEan == EanNormalize \/ EanRenormalize \/ EanRender

SpecEan == InitEan /\ [][NextEan]_vars

-----------------------------------------------------------------------------
(* Claims about the encoder.                                               *)

IsDecimal(s) == \A i \in 1..Len(s) : s[i] \in AsciiDigits

digit_value(ch) == CHOOSE d \in 0..9 : DigitChars[d + 1] = ch

\* the check digit of twelve decimal digits as the EAN-13 standard gives it
ean_check_digit(D) ==
    LET odd == digit_value(D[1]) + digit_value(D[3]) + digit_value(D[5])
                 + digit_value(D[7]) + digit_value(D[9]) + digit_value(D[11])
        even == digit_value(D[2]) + digit_value(D[4]) + digit_value(D[6])
                 + digit_value(D[8]) + digit_value(D[10]) + digit_value(D[12])
    IN  DigitChars[((10 - ((odd + 3 * even) % 10)) % 10) + 1]

Normalized == ean_pc \in {"normalized", "renormalized"}

\* C1: for twelve decimal digits D with check digit c (weights 1, 3, 1, ...),
\* calculate_ean13_checksum(D) = c, normalize_to_ean13(D) = D c, and
\* normalize_to_ean13(D x) = D c for every thirteenth digit x.
C1_ChecksumCorrect ==
    (Normalized /\ IsDecimal(value) /\ Len(value) \in {12, 13}) =>
        LET D == SubSeq(value, 1, 12)
        IN  /\ calculate_ean13_checksum(D) = ean_check_digit(D)
            /\ code = Append(D, ean_check_digit(D))

\* a thirteen-digit input whose last digit is wrong has been corrected
C1_Witness ==
    /\ ean_pc = "normalized" /\ IsDecimal(value) /\ Len(value) = 13
    /\ value[13] # ean_check_digit(SubSeq(value, 1, 12))
    /\ code = Append(SubSeq(value, 1, 12), ean_check_digit(SubSeq(value, 1, 12)))

\* C2: a thirteen-digit code with the right check digit is returned
\* unchanged, and normalising a result again changes nothing.
C2_Idempotent ==
    /\ (Normalized /\ IsDecimal(value) /\ Len(value) = 13
          /\ value[13] = ean_check_digit(SubSeq(value, 1, 12))) => code = value
    /\ ean_pc = "renormalized" => again = code

\* a valid code went through twice and came back as it was
C2_Witness ==
    /\ ean_pc = "renormalized" /\ IsDecimal(value) /\ Len(value) = 13
    /\ value[13] = ean_check_digit(SubSeq(value, 1, 12))
    /\ code = value /\ again = value

\* C3: every result of normalize_to_ean13 other than None is thirteen
\* decimal digits 0-9 whose last is the check digit of the first twelve.
C3_AlwaysValidSymbol ==
    (Normalized /\ code # None) =>
        /\ Len(code) = 13
        /\ IsDecimal(code)
        /\ code[13] = ean_check_digit(SubSeq(code, 1, 12))

\* C4: normalisation yields no code exactly when the digits left after
\* stripping are neither 12 nor 13, and rendering then raises rather than
\* drawing a code.
C4_FailsExactlyOnBadLength ==
    LET n == Len(StripNonDigits(value))
    IN  /\ Normalized => (code = None <=> n \notin {12, 13})
        /\ ean_pc = "rendered" =>
              /\ n \notin {12, 13} => (rendered.raised /\ rendered.canonical = None)
              /\ (rendered.raised /\ rendered.canonical = None) => n \notin {12, 13}

\* a value with separators and too few digits was refused by the renderer
C4_Witness ==
    /\ ean_pc = "rendered" /\ rendered.raised
    /\ Len(value) > Len(StripNonDigits(value))
    /\ Len(StripNonDigits(value)) = 11

-----------------------------------------------------------------------------
(* One call of apply_mapping_to_svg on a template, a mapping and a record. *)

Attrs2(a1, v1, a2, v2) == [a \in {a1, a2} |-> IF a = a1 THEN v1 ELSE v2]

\* <text x="5" y="5">{{sku}}</text>
T_sku == Elem("text", Attrs2("x", "5", "y", "5"), <<"{{sku}}">>, <<>>, <<>>)

\* <text dx="3" y="10px"><tspan>{{ sku }}</tspan></text>
T_sku_run ==
    Elem("text", Attrs2("dx", "3", "y", "10px"), <<>>,
         <<Elem("tspan", NoAttrs, <<"{{ sku }}">>, <<>>, <<>>)>>, <<>>)

\* <text x="10" y="20">{{city}}</text>
T_city == Elem("text", Attrs2("x", "10", "y", "20"), <<"{{city}}">>, <<>>, <<>>)

\* <text y="20" transform="rotate(5)">To: <tspan dy="1em">{{ city }}</tspan>!</text>
T_city_run ==
    [Elem("text", [a \in {"y"} |-> "20"], <<"To: ">>,
          <<Elem("tspan", [a \in {"dy"} |-> "1em"], <<"{{ city }}">>, <<>>, <<"!">>)>>,
          <<>>)
     EXCEPT !.transform = <<TfText("rotate(5)")>>]

\* <text x="5" y="20">{{sku}} / {{city}}</text>
T_both ==
    Elem("text", Attrs2("x", "5", "y", "20"), <<"{{sku}}", " / ", "{{city}}">>, <<>>, <<>>)

\* <g><text x="5" y="5">{{sku}}</text><text>Static</text></g>
G_sku ==
    Elem("g", NoAttrs, <<>>,
         <<T_sku, Elem("text", NoAttrs, <<"Static">>, <<>>, <<>>)>>, <<>>)

ElemPool == {T_sku, T_sku_run, T_city, T_city_run, T_both, G_sku}

\* the children of a template's root: up to MaxElems elements
MaxElems == 2

SeqsUpTo(S, n) == UNION {[1..k -> S] : k \in 1..n}

SvgRoot(kids) ==
    Elem("svg", Attrs2("xmlns", "http://www.w3.org/2000/svg", "version", "1.1"),
         <<>>, kids, <<>>)

BindTemplates == {SvgRoot(kids) : kids \in SeqsUpTo(ElemPool, MaxElems)}

\* mapping entries; the first is the entry of the spec's barcode scenario
cfg_barcode == [col |-> "sku", type |-> "Barcode EAN13", height_mm |-> 10]

cfg_barcode_ui ==
    [col |-> "sku", align |-> "Left", dx |-> 2, dy |-> -3, scale |-> 50,
     type |-> "Barcode EAN13", height_mm |-> 0]

cfg_sku_text ==
    [col |-> "sku", align |-> "Right", dx |-> 0, dy |-> 0, scale |-> 100,
     type |-> "Text", height_mm |-> 25]

cfg_center == [col |-> "city", align |-> "Center"]

cfg_city_ui ==
    [col |-> "city", align |-> "Justify", dx |-> 1, dy |-> 2, scale |-> 150,
     type |-> "Text", height_mm |-> 25]

BindMappings ==
    {[p \in {"sku", "city"} |-> IF p = "sku" THEN s ELSE c] :
        s \in {cfg_barcode, cfg_barcode_ui, cfg_sku_text},
        c \in {cfg_center, cfg_city_ui}}
    \cup {[p \in {"sku"} |-> cfg_barcode]}

SkuValues ==
    {Missing, NoneVal, StrVal(<<>>), StrVal(base_digits(0, 1)),
     StrVal(<<"1", "2", "3">>)}

CityValues ==
    {Missing, StrVal(<<"Berlin", "\n", "Germany">>),
     StrVal(<<"A", "\n", "\n", "B", "\n">>)}

BindRecords ==
    {[c \in {"sku", "city"} |-> IF c = "sku" THEN s ELSE t] :
        s \in SkuValues, t \in CityValues}

InitBind ==
    /\ sanitized_template \in BindTemplates
    /\ session_mapping \in BindMappings
    /\ rec \in BindRecords
    /\ lib_outcome = Idle
    /\ filled = Idle
    /\ bind_pc = "ready"
    /\ value = Idle /\ code = Idle /\ again = Idle /\ rendered = Idle
    /\ ean_pc = "idle"
    /\ df = Idle /\ idx = 0 /\ files_out = Idle /\ pdf_pages = Idle
    /\ warnings = Idle /\ tree = Idle /\ attempted = Idle /\ gen_pc = "idle"
    /\ export_format = "" /\ export_mode = "" /\ name_field_hint = ""
    /\ IoIdle

\* filled = apply_mapping_to_svg(sanitized_template, mapping, rec)
Bind ==
    /\ bind_pc = "ready"
    /\ \E l \in LibOutcomes :
          /\ lib_outcome' = l
          /\ filled' = apply_mapping_to_svg(sanitized_template, session_mapping, rec, l)
    /\ bind_pc' = "bound"
    /\ UNCHANGED <<rec, tpl_vars, ean_vars, gen_vars, io_vars>>

NextBind == Bind

SpecBind == InitBind /\ [][NextBind]_vars

-----------------------------------------------------------------------------
(* Claims about one bind.                                                  *)

\* where the <text> elements of a tree sit: <<i>> below the root, <<i, j>>
\* inside a group
TextPaths(root) ==
    {<<i>> : i \in {k \in 1..Len(root.kids) : root.kids[k].tag = "text"}}
    \cup UNION {{<<i, j>> : j \in {k \in 1..Len(root.kids[i].kids) :
                                      root.kids[i].kids[k].tag = "text"}} :
                i \in {k \in 1..Len(root.kids) : root.kids[k].tag # "text"}}

ElemAt(root, p) ==
    IF Len(p) = 1 THEN root.kids[p[1]] ELSE root.kids[p[1]].kids[p[2]]

Bound == bind_pc = "bound"

\* the element holds exactly one placeholder, of barcode kind
IsBarcodeSite(el) ==
    LET ms == find_matches(itertext(el))
    IN  Len(ms) = 1 /\ is_barcode_type(map_type(session_mapping, ms[1]))

\* the element holds placeholders and is no barcode site
IsTextSite(el) == find_matches(itertext(el)) # <<>> /\ ~IsBarcodeSite(el)

SiteValue(el) == bound_value(session_mapping, rec, find_matches(itertext(el))[1])

IsEmptyValue(v) == v.t = "none" \/ v.s = <<>>

Encodable(v) == Len(StripNonDigits(v.s)) \in {12, 13}

IsErrorMarker(el) ==
    /\ el.tag = "text" /\ el.kids = <<>>
    /\ el.text # <<>> /\ el.text[1] = "[barcode svg error: "

\* C7: a barcode value that cannot be encoded, or a barcode step that fails
\* later, does not make the bind raise: the element shows an inline error
\* text, no group stands in its place, and the other placeholder elements
\* of the document are bound as they are on their own.
C7_BarcodeFailureIsLocal ==
    Bound =>
      \A p \in TextPaths(sanitized_template) :
        LET el == ElemAt(sanitized_template, p)
        IN  (IsBarcodeSite(el) /\ ~IsEmptyValue(SiteValue(el))
               /\ (~Encodable(SiteValue(el)) \/ lib_outcome.fail)) =>
              /\ ~filled.raised
              /\ IsErrorMarker(ElemAt(filled.doc, p))
              /\ ElemAt(filled.doc, p).attrs = el.attrs
              /\ ElemAt(filled.doc, p).transform = el.transform
              /\ \A q \in TextPaths(sanitized_template) \ {p} :
                    ElemAt(filled.doc, q)
                      = bind_elem(ElemAt(sanitized_template, q),
                                  session_mapping, rec, lib_outcome).el

\* the value 123 left an error text, and the city element beside it was bound
C7_Witness ==
    /\ Bound /\ ~filled.raised
    /\ sanitized_template.kids = <<T_sku, T_city>>
    /\ IsBarcodeSite(T_sku) /\ SiteValue(T_sku) = StrVal(<<"1", "2", "3">>)
    /\ IsErrorMarker(filled.doc.kids[1])
    /\ filled.doc.kids[2].text = <<"Berlin">>
    /\ "text-anchor" \in DOMAIN filled.doc.kids[2].attrs

\* the anchor and offsets of a barcode site, as the claim names them
SiteTx(el) ==
    anchor_of(el, "x", "dx")
      + cfg_get(cfg_of(session_mapping, find_matches(itertext(el))[1]), "dx", 0)

SiteTy(el) ==
    anchor_of(el, "y", "dy")
      + cfg_get(cfg_of(session_mapping, find_matches(itertext(el))[1]), "dy", 0)

\* requested height in pixels times the entry's scale (in hundredths)
SiteScaleNum(el) ==
    LET cfg == cfg_of(session_mapping, find_matches(itertext(el))[1])
    IN  mm_to_px(or_num(cfg_get(cfg, "height_mm", 25), 25))
          * or_num(cfg_get(cfg, "scale", 100), 100)

\* the fragment the library wrote for this call
LibHeight == _parse_svg_dimensions(Elem("svg", lib_outcome.attrs, <<>>, <<>>, <<>>))[2]

Drawn(el) ==
    IsBarcodeSite(el) /\ ~IsEmptyValue(SiteValue(el))
      /\ Encodable(SiteValue(el)) /\ ~lib_outcome.fail

IsScenarioC8 ==
    /\ session_mapping["sku"] = cfg_barcode
    /\ rec["sku"] = StrVal(base_digits(0, 1))

C9_EmptyBarcodeCleared ==
    Bound =>
      \A p \in TextPaths(sanitized_template) :
        LET el == ElemAt(sanitized_template, p)
            out == ElemAt(filled.doc, p)
        IN  (IsBarcodeSite(el) /\ IsEmptyValue(SiteValue(el))) =>
              /\ ~filled.raised
              /\ out.tag = "text"
              /\ out.text = <<>> /\ out.kids = <<>>
              /\ out.attrs = el.attrs /\ out.transform = el.transform

\* a barcode element with a child run was cleared for a null value
C9_Witness ==
    /\ Bound /\ ~filled.raised
    /\ sanitized_template.kids[1] = T_sku_run
    /\ IsBarcodeSite(T_sku_run) /\ rec["sku"] = NoneVal
    /\ filled.doc.kids[1] = [T_sku_run EXCEPT !.kids = <<>>]

\* the string the text path splits: the element's content with the values in
SubstitutedText(el) ==
    substitute(itertext(el), find_matches(itertext(el)), session_mapping, rec).text

HasNoBreak(s) == \A i \in 1..Len(s) : s[i] # "\n"

\* C10: after the text path the direct text is the first line of the
\* substituted string and there is exactly one child run per further line,
\* in order, each with dy=1em and with the element's x when it has one;
\* earlier child runs are gone.  "Berlin\nGermany" gives Berlin and one run
\* Germany.
C10_LinesBecomeRuns ==
    Bound =>
      \A p \in TextPaths(sanitized_template) :
        LET el == ElemAt(sanitized_template, p)
            out == ElemAt(filled.doc, p)
            lines == IF splitlines(SubstitutedText(el)) = <<>> THEN << <<>> >>
                     ELSE splitlines(SubstitutedText(el))
        IN  IsTextSite(el) =>
              /\ out.tag = "text"
              /\ out.text = lines[1] /\ HasNoBreak(out.text)
              /\ Len(out.kids) = Len(lines) - 1
              /\ \A i \in 1..Len(out.kids) :
                    /\ out.kids[i].tag = "tspan"
                    /\ out.kids[i].text = lines[i + 1]
                    /\ HasNoBreak(out.kids[i].text)
                    /\ out.kids[i].kids = <<>> /\ out.kids[i].tail = <<>>
                    /\ attr_get(out.kids[i], "dy") = "1em"
                    /\ DOMAIN out.kids[i].attrs
                         = IF "x" \in DOMAIN el.attrs THEN {"x", "dy"} ELSE {"dy"}
                    /\ "x" \in DOMAIN el.attrs => out.kids[i].attrs["x"] = el.attrs["x"]
              /\ SubstitutedText(el) = <<"Berlin", "\n", "Germany">> =>
                    /\ out.text = <<"Berlin">>
                    /\ Len(out.kids) = 1 /\ out.kids[1].text = <<"Germany">>

\* <text x="10" y="20">{{city}}</text> bound to "Berlin\nGermany"
C10_Witness ==
    /\ Bound /\ sanitized_template.kids[1] = T_city
    /\ rec["city"] = StrVal(<<"Berlin", "\n", "Germany">>)
    /\ filled.doc.kids[1].text = <<"Berlin">>
    /\ filled.doc.kids[1].kids
         = <<Elem("tspan", Attrs2("x", "10", "dy", "1em"), <<"Germany">>, <<>>, <<>>)>>

-----------------------------------------------------------------------------
(* app.py: the Generate / Export loop.                                     *)

\* rows of a batch: at most MaxBatch
MaxBatch == 2

\* the library writes its usual fragment during a run
lib_usual ==
    [fail |-> FALSE, attrs |-> Attrs2("width", "44mm", "height", "23mm")]

\* a row of the data file by what it holds; the id column is numeric
\* (pandas int64) or text for the whole file
gen_record(kind, numeric) ==
    [c \in {"sku", "city", "id"} |->
        IF c = "id"
        THEN (IF numeric THEN IntVal(<<"7">>) ELSE StrVal(<<"A", "/", "1">>))
        ELSE IF c = "sku"
        THEN (CASE kind = "ok" -> StrVal(base_digits(0, 1))
                [] kind = "badsku" -> StrVal(<<"1", "2", "3">>)
                [] OTHER -> StrVal(<<>>))
        ELSE (CASE kind = "ok" -> StrVal(<<"Berlin", "\n", "Germany">>)
                [] kind = "badsku" -> StrVal(<<"Berlin">>)
                [] kind = "escape" -> StrVal(<<"AC", "\\D", "C">>)
                [] OTHER -> StrVal(<<>>))]

RowKinds == {"ok", "badsku", "empty", "escape"}

GenBatches ==
    {[i \in 1..Len(kinds) |-> gen_record(kinds[i], numeric)] :
        kinds \in SeqsUpTo(RowKinds, MaxBatch), numeric \in BOOLEAN}

gen_template == SvgRoot(<<T_sku, T_city>>)

gen_mapping ==
    [p \in {"sku", "city"} |-> IF p = "sku" THEN cfg_barcode_ui ELSE cfg_city_ui]

\* any(rec.get(cfg["col"], "") not in ("", None) for cfg in mapping.values())
row_matched(mapping, record) ==
    \E ph \in DOMAIN mapping :
        LET v == rec_get(record, mapping[ph].col, StrVal(<<>>))
        IN  ~(v.t = "none" \/ (v.t = "str" /\ v.s = <<>>))

\* f"record_{idx+1:03d}" for the row at 1-based position n
default_name(n) ==
    <<"record_", DigitChars[((n \div 100) % 10) + 1],
      DigitChars[((n \div 10) % 10) + 1], DigitChars[(n % 10) + 1]>>

\* re.sub(r"[^A-Za-z0-9._-]", "_", fname_base), chunk by chunk
safe_chunk(c) ==
    CASE c \in {"/", " ", "\n"} -> "_" [] c = "\\D" -> "_D" [] OTHER -> c

safe_name(fname_base) == [i \in 1..Len(fname_base) |-> safe_chunk(fname_base[i])]

\* fname_base: rec.get(name_field_hint, default) if name_field_hint else default
fname_base(record, hint, n) ==
    IF hint # "" THEN rec_get(record, hint, StrVal(default_name(n)))
    ELSE StrVal(default_name(n))

File(name, kind, row, doc) == [name |-> name, kind |-> kind, row |-> row, doc |-> doc]

Warning(row, what) == [row |-> row, what |-> what]

Init ==
    /\ sanitized_template = gen_template
    /\ session_mapping = gen_mapping
    /\ df \in GenBatches
    /\ idx = 1
    /\ files_out = <<>>
    /\ pdf_pages = <<>>
    /\ warnings = <<>>
    /\ tree = Idle
    /\ attempted = <<>>
    /\ gen_pc = "loop"
    /\ export_format \in {"SVG only", "PDF only", "PDF + SVG"}
    /\ export_mode \in {"One per record (ZIP)", "Single combined PDF"}
    /\ name_field_hint \in {"", "id", "city"}
    /\ rec = Idle /\ lib_outcome = Idle /\ filled = Idle /\ bind_pc = "idle"
    /\ value = Idle /\ code = Idle /\ again = Idle /\ rendered = Idle
    /\ ean_pc = "idle"
    /\ IoIdle

\* lines 654-657: a row without any mapped value is passed over
GenerateSkipRow ==
    /\ gen_pc = "loop" /\ idx <= Len(df)
    /\ ~row_matched(session_mapping, df[idx])
    /\ idx' = idx + 1
    /\ UNCHANGED <<df, files_out, pdf_pages, warnings, tree, attempted, gen_pc,
                   export_format, export_mode, name_field_hint,
                   tpl_vars, bind_vars, ean_vars, io_vars>>

\* lines 658-662: the bind raised; the row is reported and passed over
GenerateBindError ==
    /\ gen_pc = "loop" /\ idx <= Len(df)
    /\ row_matched(session_mapping, df[idx])
    /\ LET final_svg == apply_mapping_to_svg(sanitized_template, session_mapping,
                                             df[idx], lib_usual)
       IN  final_svg.raised /\ tree' = final_svg.doc
    /\ warnings' = Append(warnings, Warning(idx, "mapping error"))
    /\ attempted' = Append(attempted, idx)
    /\ idx' = idx + 1
    /\ UNCHANGED <<df, files_out, pdf_pages, gen_pc,
                   export_format, export_mode, name_field_hint,
                   tpl_vars, bind_vars, ean_vars, io_vars>>

\* lines 663-664: re.sub on a file name that is no string raises TypeError
\* outside every try block: the run ends there
GenerateNameError ==
    /\ gen_pc = "loop" /\ idx <= Len(df)
    /\ row_matched(session_mapping, df[idx])
    /\ LET final_svg == apply_mapping_to_svg(sanitized_template, session_mapping,
                                             df[idx], lib_usual)
       IN  /\ ~final_svg.raised
           /\ fname_base(df[idx], name_field_hint, idx).t # "str"
           /\ tree' = final_svg.doc
    /\ attempted' = Append(attempted, idx)
    /\ gen_pc' = "aborted"
    /\ UNCHANGED <<df, idx, files_out, pdf_pages, warnings,
                   export_format, export_mode, name_field_hint,
                   tpl_vars, bind_vars, ean_vars, io_vars>>

\* lines 658-675: the row is bound, named and exported; svg_to_pdf_bytes
\* succeeds (pdf_ok) or raises, which is reported
GenerateRow(pdf_ok) ==
    /\ gen_pc = "loop" /\ idx <= Len(df)
    /\ row_matched(session_mapping, df[idx])
    /\ LET final_svg == apply_mapping_to_svg(sanitized_template, session_mapping,
                                             df[idx], lib_usual)
           base == fname_base(df[idx], name_field_hint, idx)
           safe == safe_name(base.s)
           with_svg ==
               IF export_format \in {"SVG only", "PDF + SVG"}
               THEN Append(files_out, File(safe \o <<".svg">>, "svg", idx, final_svg.doc))
               ELSE files_out
           wants_pdf == export_format \in {"PDF only", "PDF + SVG"}
                          \/ export_mode = "Single combined PDF"
       IN  /\ ~final_svg.raised
           /\ base.t = "str"
           /\ wants_pdf \/ pdf_ok
           /\ tree' = final_svg.doc
           /\ files_out' =
                 IF wants_pdf /\ pdf_ok /\ export_mode = "One per record (ZIP)"
                 THEN Append(with_svg, File(safe \o <<".pdf">>, "pdf", idx, final_svg.doc))
                 ELSE with_svg
           /\ pdf_pages' =
                 IF wants_pdf /\ pdf_ok /\ export_mode # "One per record (ZIP)"
                 THEN Append(pdf_pages, File(<<>>, "pdf", idx, final_svg.doc))
                 ELSE pdf_pages
           /\ warnings' =
                 IF wants_pdf /\ ~pdf_ok
                 THEN Append(warnings, Warning(idx, "PDF generation failed"))
                 ELSE warnings
    /\ attempted' = Append(attempted, idx)
    /\ idx' = idx + 1
    /\ UNCHANGED <<df, gen_pc, export_format, export_mode, name_field_hint,
                   tpl_vars, bind_vars, ean_vars, io_vars>>

\* lines 677-699: the pages are merged (merge_ok) or, when PyPDF2 fails, kept
\* as page_NNN.pdf; the ZIP is offered when there are files
GenerateFinish(merge_ok) ==
    /\ gen_pc = "loop" /\ idx > Len(df)
    /\ merge_ok \/ (export_mode = "Single combined PDF" /\ pdf_pages # <<>>)
    /\ files_out' =
          IF export_mode = "Single combined PDF" /\ pdf_pages # <<>>
          THEN IF merge_ok
               THEN Append(files_out, File(<<"combined.pdf">>, "combined", 0, Idle))
               ELSE files_out \o
                    [i \in 1..Len(pdf_pages) |->
                        [pdf_pages[i] EXCEPT
                            !.name = <<"page_">> \o SubSeq(default_name(i), 2, 4)
                                        \o <<".pdf">>]]
          ELSE files_out
    /\ warnings' =
          IF files_out' # <<>> THEN Append(warnings, Warning(0, "Exported"))
          ELSE Append(warnings, Warning(0, "No rows matched"))
    /\ gen_pc' = "done"
    /\ UNCHANGED <<df, idx, pdf_pages, tree, attempted,
                   export_format, export_mode, name_field_hint,
                   tpl_vars, bind_vars, ean_vars, io_vars>>

Next ==
    \/ GenerateSkipRow
    \/ GenerateBindError
    \/ GenerateNameError
    \/ \E pdf_ok \in BOOLEAN : GenerateRow(pdf_ok)
    \/ \E merge_ok \in BOOLEAN : GenerateFinish(merge_ok)

Spec == Init /\ [][Next]_vars

-----------------------------------------------------------------------------
(* Claims about the Generate / Export loop.                                *)

Ended == gen_pc \in {"done", "aborted"}

\* the files a run wrote for single rows, zipped or waiting to be merged
RowFiles == {files_out[i] : i \in {j \in 1..Len(files_out) : files_out[j].row > 0}}
                \cup {pdf_pages[i] : i \in 1..Len(pdf_pages)}

\* what binding a record on its own, to the unbound template, gives
BoundAlone(record) ==
    apply_mapping_to_svg(gen_template, gen_mapping, record, lib_usual).doc

C6_EveryRecordAttempted ==
    Ended =>
        \A i \in 1..Len(df) :
            row_matched(session_mapping, df[i]) =>
                \E k \in 1..Len(attempted) : attempted[k] = i

\* the rows whose PDF generation was reported as failed
PdfFailedRows ==
    {warnings[w].row : w \in {v \in 1..Len(warnings) :
                                 warnings[v].what = "PDF generation failed"}}

\* C16: a record whose PDF generation failed is reported and contributes no
\* artifact to the batch output, in every export format.
C16_FailedRecordLeavesNoArtifact ==
    \A f \in RowFiles : f.row \notin PdfFailedRows

\* the characters a file name may keep: letters, digits, ".", "_", "-"
NameSafe(c) == c \notin {"/", " ", "\n", "\\D"}

\* the file name stem the naming rule gives the row: the naming field's value
\* with unsafe characters replaced, or record_NNN without a field or a value
ExpectedStem(i) ==
    LET v == IF name_field_hint = "" THEN Missing
             ELSE rec_get(df[i], name_field_hint, Missing)
    IN  IF v.t = "missing" THEN default_name(i)
        ELSE [k \in 1..Len(v.s) |->
                 IF NameSafe(v.s[k]) THEN v.s[k]
                 ELSE IF v.s[k] = "\\D" THEN "_D" ELSE "_"]

\* C17: naming a record never raises, whatever the type of the naming
\* field's value, and every exported file is named by the naming rule.
C17_NamingNeverRaises ==
    /\ gen_pc # "aborted"
    /\ \A i \in 1..Len(files_out) :
          files_out[i].row > 0 =>
              files_out[i].name =
                  ExpectedStem(files_out[i].row)
                      \o <<IF files_out[i].kind = "svg" THEN ".svg" ELSE ".pdf">>

-----------------------------------------------------------------------------
(* app.py: _remove_white_background_rects on its own, over fragments with  *)
(* rects of every fill, style and size the function tells apart.           *)

RectFills == {"", "#fff", "#FFF", "#ffffff", "white", "rgb(255,255,255)", "black"}

RectStyles == {"", "fill:white", "fill:black;"}

\* width and height as written: absent, small, or beyond 500
RectSizes == {<<"", "">>, <<"10", "20">>, <<"600", "10">>, <<"600", "">>}

\* a rect that carries the attributes that are not ""
rect_elem(fill, style, size) ==
    LET named == [a \in {"fill", "style", "width", "height"} |->
                    CASE a = "fill" -> fill [] a = "style" -> style
                      [] a = "width" -> size[1] [] a = "height" -> size[2]]
        present == {a \in DOMAIN named : named[a] # ""}
    IN  Elem("rect", [a \in present |-> named[a]], <<>>, <<>>, <<>>)

RectPool == {rect_elem(f, st, sz) : f \in RectFills, st \in RectStyles, sz \in RectSizes}

\* fragments: the rect alone, before the digits, or inside a group
RectFragments ==
    {Elem("svg", NoAttrs, <<>>, kids, <<>>) :
        kids \in UNION {{<<r>>,
                         <<r, Elem("text", NoAttrs, <<"4", "0">>, <<>>, <<>>)>>,
                         <<Elem("g", NoAttrs, <<>>, <<r>>, <<>>)>>} : r \in RectPool}}

InitRects ==
    /\ frag_in \in RectFragments
    /\ frag_out = [ran |-> FALSE]
    /\ FindIdle /\ SanIdle /\ MapIdle
    /\ EanIdle /\ BindIdle /\ GenIdle /\ TplIdle

\* _remove_white_background_rects(frag_in)
StripRects ==
    /\ ~frag_out.ran
    /\ frag_out' = [ran |-> TRUE, root |-> _remove_white_background_rects(frag_in)]
    /\ UNCHANGED <<frag_in, find_vars, san_vars, map_vars,
                   ean_vars, tpl_vars, bind_vars, gen_vars>>

NextRects == StripRects

SpecRects == InitRects /\ [][NextRects]_vars

RECURSIVE Descendants(_)
\* every element below el, at any depth
Descendants(el) ==
    {el.kids[i] : i \in 1..Len(el.kids)}
        \cup UNION {Descendants(el.kids[i]) : i \in 1..Len(el.kids)}

\* a fill the claim counts as white, read without regard to case and spaces
WhiteFill(el) ==
    fill_lower(attr_get(el, "fill")) \in {"#fff", "#ffffff", "white", "rgb(255,255,255)"}

\* C19: once the function has run, no rect with a white-equivalent fill
\* remains in the fragment, and no element other than a rect is removed.
C19_NoWhiteRectRemains ==
    frag_out.ran =>
        /\ \A el \in Descendants(frag_out.root) : el.tag = "rect" => ~WhiteFill(el)
        /\ \A el \in Descendants(frag_in) :
              el.tag # "rect" => \E e2 \in Descendants(frag_out.root) : e2.tag = el.tag

-----------------------------------------------------------------------------
(* app.py: find_placeholders, character by character.                     *)

\* texts are built from at most MaxPieces pieces
MaxPieces == 3

\* [A-Za-z0-9_\-\.] over the characters of the model
NameChars == {"a", "b", "B", "2", "_", ".", "-"}

\* a slip: the hyphen is left out of the character class
name_char_nohyphen(c) == c \in NameChars \ {"-"}

name_char(c) == c \in NameChars

\* \s
space_char(c) == c \in {" ", "\n", "\t"}

\* code points of the characters of the model, which order Python's strings
code_point(c) ==
    CASE c = "\t" -> 9 [] c = "\n" -> 10 [] c = " " -> 32 [] c = "!" -> 33
      [] c = "-" -> 45 [] c = "." -> 46 [] c = "2" -> 50 [] c = "B" -> 66
      [] c = "_" -> 95 [] c = "a" -> 97 [] c = "b" -> 98 [] c = "{" -> 123
      [] c = "}" -> 125

RECURSIVE skip_spaces(_, _)
\* \s*, greedy: the first position from i on that holds no whitespace
skip_spaces(text, i) ==
    IF i <= Len(text) /\ space_char(text[i]) THEN skip_spaces(text, i + 1) ELSE i

RECURSIVE skip_name(_, _)
\* [A-Za-z0-9_\-\.]*, greedy
skip_name(text, i) ==
    IF i <= Len(text) /\ name_char(text[i]) THEN skip_name(text, i + 1) ELSE i

char_at(text, i) == IF i >= 1 /\ i <= Len(text) THEN text[i] ELSE ""

\* the pattern \{\{\s*([A-Za-z0-9_\-\.]+)\s*\}\} tried at position i: the
\* classes of neighbouring parts are disjoint, so the greedy match is the
\* only one
match_at(text, i) ==
    LET j == skip_spaces(text, i + 2)
        k == skip_name(text, j)
        m == skip_spaces(text, k)
        ok == /\ char_at(text, i) = "{" /\ char_at(text, i + 1) = "{"
              /\ k > j
              /\ char_at(text, m) = "}" /\ char_at(text, m + 1) = "}"
    IN  [ok |-> ok, name |-> SubSeq(text, j, k - 1), end |-> m + 2]

RECURSIVE findall(_, _)
\* re.findall: leftmost matches that do not overlap, scanning from i
findall(text, i) ==
    IF i > Len(text) THEN <<>>
    ELSE LET mt == match_at(text, i)
         IN  IF mt.ok THEN <<mt.name>> \o findall(text, mt.end)
             ELSE findall(text, i + 1)

RECURSIVE str_less(_, _)
\* a < b for Python strings: by code point, a proper prefix first
str_less(a, b) ==
    IF b = <<>> THEN FALSE
    ELSE IF a = <<>> THEN TRUE
    ELSE IF code_point(a[1]) # code_point(b[1])
         THEN code_point(a[1]) < code_point(b[1])
         ELSE str_less(Tail(a), Tail(b))

RECURSIVE sorted(_)
\* sorted(S) of a set of strings
sorted(S) ==
    IF S = {} THEN <<>>
    ELSE LET least == CHOOSE x \in S : \A y \in S \ {x} : str_less(x, y)
         IN  <<least>> \o sorted(S \ {least})

\* sorted(set(re.findall(..., svg_text)))
find_placeholders(svg_text) ==
    LET found == findall(svg_text, 1)
    IN  sorted({found[i] : i \in 1..Len(found)})

Chars(str) ==
    CASE str = "{{a}}" -> <<"{", "{", "a", "}", "}">>
      [] str = "{{ b-2 }}" -> <<"{", "{", " ", "b", "-", "2", " ", "}", "}">>
      [] str = "{{\tB.a\n}}" -> <<"{", "{", "\t", "B", ".", "a", "\n", "}", "}">>
      [] str = "{{a b}}" -> <<"{", "{", "a", " ", "b", "}", "}">>
      [] str = "{{a!}}" -> <<"{", "{", "a", "!", "}", "}">>
      [] str = "{{}}" -> <<"{", "{", "}", "}">>
      [] str = "{" -> <<"{">>
      [] str = "}}" -> <<"}", "}">>
      [] str = "_a" -> <<"_", "a">>

\* pieces of template text: placeholders as written, near misses and debris
FindPieces ==
    {"{{a}}", "{{ b-2 }}", "{{\tB.a\n}}", "{{a b}}", "{{a!}}", "{{}}", "{", "}}", "_a"}

RECURSIVE flatten(_)
flatten(pieces) ==
    IF pieces = <<>> THEN <<>> ELSE Chars(Head(pieces)) \o flatten(Tail(pieces))

FindTexts == {flatten(pieces) : pieces \in SeqsUpTo(FindPieces, MaxPieces)}

InitFind ==
    /\ tpl_text \in FindTexts
    /\ placeholders = [ran |-> FALSE]
    /\ RectIdle /\ SanIdle /\ MapIdle
    /\ EanIdle /\ BindIdle /\ GenIdle /\ TplIdle

\* placeholders = find_placeholders(sanitized_template)
FindPlaceholders ==
    /\ ~placeholders.ran
    /\ placeholders' = [ran |-> TRUE, names |-> find_placeholders(tpl_text)]
    /\ UNCHANGED <<tpl_text, rect_vars, san_vars, map_vars,
                   ean_vars, tpl_vars, bind_vars, gen_vars>>

NextFind == FindPlaceholders

SpecFind == InitFind /\ [][NextFind]_vars

\* the names n the text holds as "{{", whitespace, n, whitespace, "}}" with n
\* a nonempty run of letters, digits, "_", "." and "-"
NamesIn(text) ==
    {SubSeq(text, j, k - 1) :
        <<j, k>> \in {p \in (1..Len(text)) \X (1..Len(text) + 1) :
            /\ p[1] < p[2]
            /\ \A x \in p[1]..(p[2] - 1) :
                  text[x] \in {"a", "b", "B", "2", "_", ".", "-"}
            /\ \E i \in 1..p[1], m \in p[2]..Len(text) :
                  /\ i + 2 <= p[1]
                  /\ text[i] = "{" /\ text[i + 1] = "{"
                  /\ \A x \in (i + 2)..(p[1] - 1) : text[x] \in {" ", "\n", "\t"}
                  /\ \A x \in p[2]..(m - 1) : text[x] \in {" ", "\n", "\t"}
                  /\ m + 1 <= Len(text)
                  /\ text[m] = "}" /\ text[m + 1] = "}"}}

\* C11: discovery returns exactly the distinct names the text holds between
\* "{{" and "}}" (whitespace around the name allowed), each once, in
\* ascending order.
C11_DiscoveryIsTheSortedSet ==
    placeholders.ran =>
        LET names == placeholders.names
        IN  /\ {names[i] : i \in 1..Len(names)} = NamesIn(tpl_text)
            /\ \A i, j \in 1..Len(names) : i < j => str_less(names[i], names[j])

\* the text {{a}}{{ b-2 }}{{a}} gave exactly a and b-2
C11_Witness ==
    /\ placeholders.ran
    /\ tpl_text = flatten(<<"{{a}}", "{{ b-2 }}", "{{a}}">>)
    /\ placeholders.names = <<<<"a">>, <<"b", "-", "2">>>>

-----------------------------------------------------------------------------
(* app.py: sanitize_for_preview.  The uploaded text is held by what it     *)
(* spells: a prolog and a tree of tags with their names and attributes as  *)
(* written; the textual passes of lines 109-114 rewrite that spelling, the *)
(* parser then builds elements from it.                                    *)

SVG_NS == "http://www.w3.org/2000/svg"

\* an attribute as written: prefix:local="val" after one blank
SAttr(prefix, local, val) == [prefix |-> prefix, local |-> local, val |-> val]

\* a tag as written, with its text chunks and child tags
SNode(prefix, local, sattrs, text, kids) ==
    [prefix |-> prefix, local |-> local, sattrs |-> sattrs,
     text |-> text, kids |-> kids]

\* names made of [A-Za-z0-9_] only, among the names the texts use
WordNames == {"xlink", "xmlns", "inkscape", "svg", "SVG", "g", "href", "label",
              "html", "notsvg", "text", "width", "height", "viewBox", "style"}

\* names made of [A-Za-z0-9_\-] only
DashNames == WordNames \cup {"my-ns", "font-size"}

\* line 109 and 110: <!DOCTYPE ...> and <!ENTITY ...> are cut out; line 108
\* strips the byte order mark
strip_prolog(prolog) == SelectSeq(prolog, LAMBDA it : it \notin {"bom", "doctype", "entity"})

\* line 111: (<\/?)(prefix):(local) becomes prefix_local in tag position
sub_tag_prefix(node) ==
    IF node.prefix # "" /\ node.prefix \in WordNames /\ node.local \in DashNames
    THEN [node EXCEPT !.prefix = "", !.local = node.prefix \o "_" \o node.local]
    ELSE node

\* line 112: (\s)(prefix):(local)= becomes prefix_local= ; xmlns:p= is such
\* an attribute
sub_attr_prefix(a) ==
    IF a.prefix # "" /\ a.prefix \in WordNames /\ a.local \in DashNames
    THEN [a EXCEPT !.prefix = "", !.local = a.prefix \o "_" \o a.local]
    ELSE a

\* line 113: \s+xmlns:name="..." is cut out where it is still spelled so
is_xmlns_decl(a) == a.prefix = "xmlns" /\ a.local \in WordNames /\ a.val # ""

\* lines 112 and 113 over the attributes of one tag, in the code's order
sub_attrs(sattrs) ==
    LET renamed == [i \in 1..Len(sattrs) |-> sub_attr_prefix(sattrs[i])]
    IN  SelectSeq(renamed, LAMBDA a : ~is_xmlns_decl(a))

EntityRefs == {"&lt;", "&gt;", "&amp;", "&quot;", "&apos;", "&nbsp;", "&xxe;"}

\* line 114: &name; is kept for lt, gt, amp, quot, apos and cut out otherwise
sub_entities(text) ==
    SelectSeq(text, LAMBDA ch : ch \notin EntityRefs
                                 \/ ch \in {"&lt;", "&gt;", "&amp;", "&quot;", "&apos;"})

RECURSIVE text_passes(_)
\* lines 111-114 over a tag and everything below it
text_passes(node) ==
    LET renamed == sub_tag_prefix(node)
    IN  [renamed EXCEPT !.sattrs = sub_attrs(node.sattrs),
                        !.text = sub_entities(node.text),
                        !.kids = [i \in 1..Len(node.kids) |-> text_passes(node.kids[i])]]

\* an element as lxml holds it: tag is "{namespace}local" or the name as
\* written, attrs the attributes other than namespace declarations
PElem(tag, local, ns, attrs, text, kids) ==
    [tag |-> tag, local |-> local, ns |-> ns, attrs |-> attrs,
     text |-> text, kids |-> kids]

attr_name(a) == IF a.prefix = "" THEN a.local ELSE a.prefix \o ":" \o a.local

is_default_ns(a) == a.prefix = "" /\ a.local = "xmlns"

RECURSIVE parse_node(_, _)
\* etree.fromstring with recover=True on the spelled tag: a default
\* namespace declaration names the namespace of the tag and of what is
\* below it; a prefix left unbound stays in the name
parse_node(node, inherited) ==
    LET decls == SelectSeq(node.sattrs, is_default_ns)
        ns == IF decls # <<>> THEN decls[1].val ELSE inherited
        plain == SelectSeq(node.sattrs, LAMBDA a : ~is_default_ns(a))
        names == {attr_name(plain[i]) : i \in 1..Len(plain)}
        attrs == [n \in names |->
                    plain[CHOOSE i \in 1..Len(plain) : attr_name(plain[i]) = n].val]
        tag == IF node.prefix # "" THEN node.prefix \o ":" \o node.local
               ELSE IF ns # "" THEN "{" \o ns \o "}" \o node.local
               ELSE node.local
    IN  PElem(tag, node.local, IF node.prefix = "" THEN ns ELSE "", attrs, node.text,
              [i \in 1..Len(node.kids) |-> parse_node(node.kids[i], ns)])

\* the characters of the local names and size values the texts use
chars_of(str) ==
    CASE str = "svg" -> <<"s", "v", "g">>
      [] str = "SVG" -> <<"S", "V", "G">>
      [] str = "notsvg" -> <<"n", "o", "t", "s", "v", "g">>
      [] str = "inkscape_svg" -> <<"i", "n", "k", "s", "c", "a", "p", "e", "_", "s", "v", "g">>
      [] str = "html" -> <<"h", "t", "m", "l">>
      [] str = "g" -> <<"g">>
      [] str = "text" -> <<"t", "e", "x", "t">>
      [] str = "300" -> <<"3", "0", "0">>
      [] str = "200" -> <<"2", "0", "0">>
      [] str = "300px" -> <<"3", "0", "0", "p", "x">>
      [] str = " 200mm" -> <<" ", "2", "0", "0", "m", "m">>
      [] str = "10em" -> <<"1", "0", "e", "m">>
      [] str = "2e2" -> <<"2", "e", "2">>
      [] str = "300cm" -> <<"3", "0", "0", "c", "m">>
      [] str = "auto" -> <<"a", "u", "t", "o">>
      [] str = "100%" -> <<"1", "0", "0", "%">>

\* str.lower() on one character
lower(c) == CASE c = "S" -> "s" [] c = "V" -> "v" [] c = "G" -> "g" [] OTHER -> c

\* root.tag.lower().endswith("svg"); the namespace part "{...}" of a tag
\* ends in "}", so the test is decided by the local name
ends_with_svg(el) ==
    LET cs == chars_of(el.local)
        low == [i \in 1..Len(cs) |-> lower(cs[i])]
        n == Len(low)
    IN  n >= 3 /\ SubSeq(low, n - 2, n) = <<"s", "v", "g">>

RECURSIVE preorder(_)
\* el.iter(): the element, then what is below it, in document order
preorder(el) ==
    LET RECURSIVE below(_)
        below(kids) == IF kids = <<>> THEN <<>>
                       ELSE preorder(Head(kids)) \o below(Tail(kids))
    IN  <<el>> \o below(el.kids)

\* root.find(".//" \o tag): the first element below root with that tag, or
\* none
find_first(root, tag) ==
    LET hits == SelectSeq(Tail(preorder(root)), LAMBDA e : e.tag = tag)
    IN  IF hits = <<>> THEN [found |-> FALSE] ELSE [found |-> TRUE, el |-> hits[1]]

\* lines 133-137: the first element of root.iter() whose tag ends in svg
iter_first(root) ==
    LET hits == SelectSeq(preorder(root), ends_with_svg)
    IN  IF hits = <<>> THEN [found |-> FALSE] ELSE [found |-> TRUE, el |-> hits[1]]

\* lines 128-140: the root when its tag ends in svg, else the svg element
\* found below it; `a or b` takes b when a is None or has no children
locate_svg(root) ==
    IF ends_with_svg(root) THEN [found |-> TRUE, el |-> root]
    ELSE LET a == find_first(root, "{" \o SVG_NS \o "}svg")
             b == find_first(root, "svg")
             cand == IF a.found /\ a.el.kids # <<>> THEN a ELSE b
         IN  IF cand.found THEN cand
             ELSE iter_first(root)

\* code points of the characters of size values
size_code(c) ==
    CASE c = " " -> 32 [] c = "%" -> 37 [] c = "a" -> 97 [] c = "b" -> 98
      [] c = "c" -> 99 [] c = "e" -> 101 [] c = "m" -> 109 [] c = "o" -> 111
      [] c = "p" -> 112 [] c = "t" -> 116 [] c = "u" -> 117 [] c = "x" -> 120
      [] OTHER -> ord(c)

\* a slip: the class is the digits, ".", "+", "-", "e" and "E" one by one
in_number_class_listed(c) == c \in AsciiDigits \cup {".", "+", "-", "e", "E"}

\* the class [0-9.+-eE]: "+-e" is the range from "+" (43) to "e" (101)
in_number_class(c) ==
    \/ c \in AsciiDigits \cup {".", "E"}
    \/ size_code(c) >= 43 /\ size_code(c) <= 101

RECURSIVE class_run(_)
\* the longest leading run of class characters
class_run(cs) ==
    IF cs # <<>> /\ in_number_class(cs[1]) THEN <<cs[1]>> \o class_run(Tail(cs))
    ELSE <<>>

RECURSIVE lstrip_spaces(_)
lstrip_spaces(cs) ==
    IF cs # <<>> /\ cs[1] = " " THEN lstrip_spaces(Tail(cs)) ELSE cs

RECURSIVE decimal(_)
\* the number a run of digits writes
decimal(ds) ==
    IF ds = <<>> THEN 0
    ELSE decimal(SubSeq(ds, 1, Len(ds) - 1)) * 10 + (ord(ds[Len(ds)]) - 48)

RECURSIVE pow10(_)
pow10(n) == IF n = 0 THEN 1 ELSE 10 * pow10(n - 1)

all_digits(ds) == ds # <<>> /\ \A i \in 1..Len(ds) : ds[i] \in AsciiDigits

\* float(run) for runs of digits with an optional exponent; every other run
\* of the texts' values raises ValueError
float_of_run(run) ==
    LET es == {i \in 1..Len(run) : run[i] = "e"}
    IN  IF all_digits(run) THEN [ok |-> TRUE, n |-> decimal(run)]
        ELSE IF \E i \in es : /\ all_digits(SubSeq(run, 1, i - 1))
                             /\ all_digits(SubSeq(run, i + 1, Len(run)))
        THEN LET i == CHOOSE k \in es : TRUE
             IN  [ok |-> TRUE,
                  n |-> decimal(SubSeq(run, 1, i - 1))
                          * pow10(decimal(SubSeq(run, i + 1, Len(run))))]
        ELSE [ok |-> FALSE, n |-> 0]

\* float(re.match(r"^\s*([0-9.+-eE]+)", v).group(1)): not ok when nothing
\* matches (AttributeError) or float() raises
leading_number(v) ==
    LET run == class_run(lstrip_spaces(chars_of(v)))
    IN  IF run = <<>> THEN [ok |-> FALSE, n |-> 0] ELSE float_of_run(run)

\* lines 147-156
synth_viewbox(root) ==
    LET w == attr_get(root, "width")
        h == attr_get(root, "height")
    IN  IF "viewBox" \in DOMAIN root.attrs \/ w = "" \/ h = "" THEN root
        ELSE LET wn == leading_number(w)
                 hn == leading_number(h)
             IN  IF wn.ok /\ hn.ok
                 THEN attr_set(root, "viewBox",
                               "0 0 " \o float_str(wn.n) \o " " \o float_str(hn.n))
                 ELSE root

\* lines 162-168 on the style values of the texts: declarations trimmed,
\* empty ones dropped, rejoined as "k: v; k: v"
normalize_style(style) ==
    CASE style = "fill:red;;stroke:none" -> "fill: red; stroke: none"
      [] style = "bogus" -> ""
      [] OTHER -> style

RECURSIVE normalize_styles(_)
\* lines 159-168 over root.iter()
normalize_styles(el) ==
    LET own == IF attr_get(el, "style") # ""
               THEN attr_set(el, "style", normalize_style(attr_get(el, "style")))
               ELSE el
    IN  [own EXCEPT !.kids = [i \in 1..Len(el.kids) |-> normalize_styles(el.kids[i])]]

\* sanitize_for_preview(svg_bytes); parser_gives is what etree.fromstring
\* does with text that holds no tag: "raise" or "none"
sanitize_for_preview(svg_bytes, parser_gives) ==
    IF svg_bytes.kind = "empty"
    THEN [raised |-> TRUE, err |-> "Empty SVG input"]
    ELSE IF svg_bytes.kind = "garbage"
    THEN [raised |-> TRUE,
          err |-> IF parser_gives = "raise" THEN "XMLSyntaxError" ELSE "AttributeError"]
    ELSE LET raw == [prolog |-> strip_prolog(svg_bytes.prolog),
                     root |-> text_passes(svg_bytes.root)]
             root == parse_node(raw.root, "")
             svg == locate_svg(root)
         IN  IF ~svg.found THEN [raised |-> TRUE, err |-> "No <svg> element found"]
             ELSE LET r1 == IF attr_get(svg.el, "xmlns") = ""
                            THEN attr_set(svg.el, "xmlns", SVG_NS) ELSE svg.el
                      r2 == IF "version" \notin DOMAIN r1.attrs
                            THEN attr_set(r1, "version", "1.1") ELSE r1
                  IN  [raised |-> FALSE, err |-> "",
                       out |-> normalize_styles(synth_viewbox(r2))]

-----------------------------------------------------------------------------
(* The sanitizer on its own: one upload, sanitized once.                   *)

SanRootNames == {<<"", "svg">>, <<"", "SVG">>, <<"", "notsvg">>, <<"", "html">>,
                 <<"", "g">>, <<"inkscape", "svg">>}

SanWidths == {"", "300", "300px", "10em", "300cm", "100%"}

SanHeights == {"", "200", " 200mm", "2e2", "auto"}

SanViewBoxes == {"", "0 0 10 10"}

\* prefixed attributes with their declaration, as editors write them
SanNsAttrs ==
    {<<>>,
     <<SAttr("xmlns", "xlink", "http://www.w3.org/1999/xlink"),
       SAttr("xlink", "href", "#a")>>,
     <<SAttr("inkscape", "label", "x"), SAttr("", "style", "fill:red;;stroke:none")>>}

SanKids ==
    {<<>>,
     <<SNode("", "svg", <<SAttr("", "width", "300"), SAttr("", "height", "200")>>, <<>>,
             <<SNode("", "text", <<>>, <<"a", "&nbsp;", "&lt;">>, <<>>)>>)>>,
     <<SNode("", "g", <<>>, <<>>,
             <<SNode("", "text", <<>>, <<"&xxe;", "b">>, <<>>)>>)>>,
     <<SNode("", "g", <<>>, <<>>, <<>>), SNode("", "notsvg", <<>>, <<>>, <<>>)>>}

\* the attributes of a root tag, those with value "" left out
san_root_attrs(ns, w, h, vb, extra) ==
    LET cand == <<SAttr("", "xmlns", ns), SAttr("", "width", w),
                  SAttr("", "height", h), SAttr("", "viewBox", vb)>>
    IN  SelectSeq(cand, LAMBDA a : a.val # "") \o extra

SanUploads ==
    {[kind |-> "empty"], [kind |-> "garbage"]}
    \cup {[kind |-> "markup", prolog |-> pro,
           root |-> SNode(nm[1], nm[2], san_root_attrs(ns, w, h, vb, extra), <<>>, kids)] :
            pro \in {<<>>, <<"bom", "doctype", "entity">>},
            nm \in SanRootNames, ns \in {"", SVG_NS},
            w \in SanWidths, h \in SanHeights, vb \in SanViewBoxes,
            extra \in SanNsAttrs, kids \in SanKids}

InitSan ==
    /\ svg_upload \in SanUploads
    /\ sanitize_out = [ran |-> FALSE]
    /\ raw_text = Idle /\ raw_subbed = Idle
    /\ RectIdle /\ FindIdle /\ MapIdle
    /\ EanIdle /\ BindIdle /\ GenIdle /\ TplIdle

\* lines 493-499: sanitized_template = sanitize_for_preview(raw_svg_bytes),
\* None when it raises
Sanitize(parser_gives) ==
    /\ ~sanitize_out.ran
    /\ LET res == sanitize_for_preview(svg_upload, parser_gives)
       IN  /\ sanitize_out' = [ran |-> TRUE, res |-> res]
           /\ sanitized_template' = IF res.raised THEN None ELSE res.out
    /\ UNCHANGED <<svg_upload, raw_text, raw_subbed, session_mapping, rect_vars,
                   find_vars, map_vars, ean_vars, bind_vars, gen_vars>>

NextSan == \E parser_gives \in {"raise", "none"} : Sanitize(parser_gives)

SpecSan == InitSan /\ [][NextSan]_vars

-----------------------------------------------------------------------------
(* Claims about the sanitizer.                                             *)

Sanitized == sanitize_out.ran /\ ~sanitize_out.res.raised

RECURSIVE SourceNodes(_)
\* every tag the upload spells
SourceNodes(node) ==
    {node} \cup UNION {SourceNodes(node.kids[i]) : i \in 1..Len(node.kids)}

\* an svg element, in whatever case or namespace it is written
IsSvgName(local) == local \in {"svg", "SVG", "inkscape_svg"}

HoldsSvgElement(upload) ==
    /\ upload.kind = "markup"
    /\ \E n \in SourceNodes(upload.root) : n.local \in {"svg", "SVG"}

\* C12: an upload that holds no svg element anywhere makes the sanitizer
\* raise, and every document the sanitizer returns has an svg element as
\* its root.
C12_NoSvgIsAnError ==
    sanitize_out.ran =>
        /\ ~HoldsSvgElement(svg_upload) => sanitize_out.res.raised
        /\ ~sanitize_out.res.raised => IsSvgName(sanitize_out.res.out.local)

\* the element the sanitizer took as root, as the parser built it
SourceRoot == locate_svg(parse_node(text_passes(svg_upload.root), "")).el

OutViewBox == attr_get(sanitize_out.res.out, "viewBox")

\* sizes that are a number as written
NumericSizes == {"300", "200", "2e2"}

\* C13 as stated: without a viewBox and with numeric width and height the
\* viewBox becomes "0 0 width height" (300 and 200 give "0 0 300 200");
\* otherwise the viewBox is left as it was.
C13_ViewBoxAsStated ==
    Sanitized =>
        LET w == attr_get(SourceRoot, "width")
            h == attr_get(SourceRoot, "height")
            vb == attr_get(SourceRoot, "viewBox")
        IN  IF vb = "" /\ w \in NumericSizes /\ h \in NumericSizes
            THEN /\ OutViewBox = "0 0 " \o ToString(leading_number(w).n)
                                        \o " " \o ToString(leading_number(h).n)
                 /\ (w = "300" /\ h = "200" => OutViewBox = "0 0 300 200")
            ELSE OutViewBox = vb

\* the number a size starts with when it is a number followed by nothing or
\* by one of the units px, pt, pc, mm, in, %; 0 for every other size
StartsWithNumber(v) == v \in {"300", "300px", "100%", "200", " 200mm", "2e2"}

NumberOfSize(v) ==
    CASE v \in {"300", "300px"} -> 300 [] v = "100%" -> 100
      [] v \in {"200", " 200mm", "2e2"} -> 200 [] OTHER -> 0

\* C13: without a viewBox, and with width and height that each start with a
\* number followed by nothing or by a unit that does not begin with a
\* letter up to "e", the viewBox becomes "0 0 W H" with W and H written as
\* floating-point numbers (300 and 200 give "0 0 300.0 200.0"); otherwise
\* the viewBox is left as it was.
C13_ViewBoxSynthesis ==
    Sanitized =>
        LET w == attr_get(SourceRoot, "width")
            h == attr_get(SourceRoot, "height")
            vb == attr_get(SourceRoot, "viewBox")
        IN  IF vb = "" /\ StartsWithNumber(w) /\ StartsWithNumber(h)
            THEN /\ OutViewBox = "0 0 " \o ToString(NumberOfSize(w)) \o ".0 "
                                        \o ToString(NumberOfSize(h)) \o ".0"
                 /\ (w = "300" /\ h = "200" => OutViewBox = "0 0 300.0 200.0")
            ELSE OutViewBox = vb

\* an svg root of width 300 and height 200 without a viewBox was sanitized
C13_Witness ==
    /\ Sanitized
    /\ svg_upload.root.local = "svg"
    /\ attr_get(SourceRoot, "width") = "300"
    /\ attr_get(SourceRoot, "height") = "200"
    /\ attr_get(SourceRoot, "viewBox") = ""
    /\ OutViewBox = "0 0 300.0 200.0"

\* attribute names that carry a prefix, or declare or stem from the
\* declaration of one
NamespaceNames ==
    {"xlink:href", "inkscape:label", "xmlns:xlink", "xmlns_xlink"}

\* C20: once sanitized, no element carries a prefixed attribute or an
\* attribute that declares or stems from a namespace declaration, and no
\* element name carries a prefix.
C20_NamespacesFlattened ==
    Sanitized =>
        LET els == preorder(sanitize_out.res.out)
        IN  \A i \in 1..Len(els) :
                /\ DOMAIN els[i].attrs \cap NamespaceNames = {}
                /\ els[i].tag # "inkscape:svg"

-----------------------------------------------------------------------------
(* app.py: the mapping documents.  A mapping entry is a record of the      *)
(* fields it holds; dx, dy and height_mm are whole numbers, scale is in    *)
(* hundredths.  An entry that is no JSON object is [scalar |-> text].      *)

MapFields == <<"col", "align", "dx", "dy", "scale", "type", "height_mm">>

NumFields == {"dx", "dy", "scale", "height_mm"}

CsvHeader == <<"placeholder">> \o MapFields

\* placeholders in the order the dict holds them
MapKeys == <<"city", "nan", "sku">>

keys_of(mapping) == SelectSeq(MapKeys, LAMBDA k : k \in DOMAIN mapping)

is_object(entry) == "scalar" \notin DOMAIN entry

\* str() of a float as the f-string and json.dumps write it
num_str(field, n) == IF field = "scale" THEN float_str100(n) ELSE float_str(n)

\* the numbers the documents of the model write
NumRange(field) == IF field = "scale" THEN 0..300 ELSE -5..30

\* the number a cell or a JSON token spells, as a float or as an int
parse_num(field, str) ==
    LET unit == IF field = "scale" THEN 100 ELSE 1
        hits == {n \in NumRange(field) :
                    num_str(field, n) = str \/ (n % unit = 0 /\ ToString(n \div unit) = str)}
    IN  IF hits = {} THEN [ok |-> FALSE, n |-> 0]
        ELSE [ok |-> TRUE, n |-> CHOOSE n \in hits : TRUE]

\* json.dumps(current_mapping): the members in order, strings quoted,
\* numbers as written
json_dumps(mapping) ==
    LET ks == keys_of(mapping)
        member(k) ==
            IF ~is_object(mapping[k])
            THEN [key |-> k, kind |-> "string", str |-> mapping[k].scalar, pairs |-> <<>>]
            ELSE LET fs == SelectSeq(MapFields, LAMBDA f : f \in DOMAIN mapping[k])
                 IN  [key |-> k, kind |-> "object", str |-> "",
                      pairs |-> [i \in 1..Len(fs) |->
                          [name |-> fs[i],
                           quoted |-> fs[i] \notin NumFields,
                           str |-> IF fs[i] \in NumFields
                                   THEN num_str(fs[i], mapping[k][fs[i]])
                                   ELSE mapping[k][fs[i]]]]]
    IN  [top |-> "object", members |-> [i \in 1..Len(ks) |-> member(ks[i])]]

\* json.loads of an object document: every member as it is written
json_loads(doc) ==
    LET ms == doc.members
        entry(m) ==
            IF m.kind = "string" THEN [f \in {"scalar"} |-> m.str]
            ELSE [f \in {m.pairs[i].name : i \in 1..Len(m.pairs)} |->
                    LET pr == m.pairs[CHOOSE i \in 1..Len(m.pairs) : m.pairs[i].name = f]
                    IN  IF pr.quoted THEN pr.str ELSE parse_num(f, pr.str).n]
    IN  [k \in {ms[i].key : i \in 1..Len(ms)} |->
            entry(ms[CHOOSE i \in 1..Len(ms) : ms[i].key = k])]

\* the defaults of the CSV row: cfg.get('col',''), 'Left', 0, 0, 1.0, 'Text', 25.0
csv_default(field) ==
    CASE field = "col" -> "" [] field = "align" -> "Left" [] field = "dx" -> "0"
      [] field = "dy" -> "0" [] field = "scale" -> "1.0" [] field = "type" -> "Text"
      [] field = "height_mm" -> "25.0"

\* lines 560-569: the header, then one unquoted row per entry; cfg.get on an
\* entry that is no dict raises and no CSV is offered
csv_dump(mapping) ==
    LET ks == keys_of(mapping)
        cell(k, f) ==
            IF f \notin DOMAIN mapping[k] THEN csv_default(f)
            ELSE IF f \in NumFields THEN num_str(f, mapping[k][f])
            ELSE mapping[k][f]
    IN  IF \E k \in DOMAIN mapping : ~is_object(mapping[k])
        THEN [raised |-> TRUE, lines |-> <<>>]
        ELSE [raised |-> FALSE,
              lines |-> <<CsvHeader>> \o
                  [i \in 1..Len(ks) |->
                      <<ks[i]>> \o [j \in 1..Len(MapFields) |-> cell(ks[i], MapFields[j])]]]

\* stands for float("nan"), which an empty numeric cell reads as
NanNum == -999999

\* pd.read_csv, then lines 530-543 over the rows: raised when the text holds
\* no line, a row is longer than the header, or float() rejects a cell.
\* A cell of a column the header lacks gives r.get's default; an empty cell
\* is NaN, which is truthy, prints as "nan" and stays nan under float().
csv_rows(lines) ==
    LET header == lines[1]
        rows == Tail(lines)
        col_of(name) == CHOOSE i \in 1..Len(header) : header[i] = name
        has(name) == \E i \in 1..Len(header) : header[i] = name
        empty(r, name) == col_of(name) > Len(r) \/ r[col_of(name)] = ""
        text(r, name, default) ==
            IF ~has(name) THEN default
            ELSE IF empty(r, name) THEN "nan" ELSE r[col_of(name)]
        number(r, name, default) ==
            IF ~has(name) THEN [ok |-> TRUE, n |-> default]
            ELSE IF empty(r, name) THEN [ok |-> TRUE, n |-> NanNum]
            ELSE LET pn == parse_num(name, r[col_of(name)])
                 IN  [ok |-> pn.ok, n |-> or_num(pn.n, default)]
        ph(r) == IF has("placeholder") THEN text(r, "placeholder", "")
                 ELSE IF has("ph") THEN text(r, "ph", "")
                 ELSE text(r, "name", "")
        entry(r) ==
            [f \in {MapFields[i] : i \in 1..Len(MapFields)} |->
                CASE f = "col" -> text(r, "col", "")
                  [] f = "align" -> text(r, "align", "Left")
                  [] f = "type" -> text(r, "type", "Text")
                  [] f = "dx" -> number(r, "dx", 0).n
                  [] f = "dy" -> number(r, "dy", 0).n
                  [] f = "scale" -> number(r, "scale", 100).n
                  [] f = "height_mm" -> number(r, "height_mm", 25).n]
        bad(r) == \E f \in NumFields :
                     ~number(r, f, 0).ok
        used == SelectSeq(rows, LAMBDA r : ph(r) # "")
    IN  IF \E i \in 1..Len(rows) : Len(rows[i]) > Len(header) \/ (ph(rows[i]) # "" /\ bad(rows[i]))
        THEN [raised |-> TRUE, newmap |-> [k \in {} |-> [f \in {} |-> ""]]]
        ELSE [raised |-> FALSE,
              newmap |-> [k \in {ph(used[i]) : i \in 1..Len(used)} |->
                  entry(used[CHOOSE i \in 1..Len(used) :
                            /\ ph(used[i]) = k
                            /\ \A j \in (i + 1)..Len(used) : ph(used[j]) # k])]]

\* lines 520-526
upload_json(file, mapping) ==
    IF ~file.parses THEN [mapping |-> mapping, msg |-> "Failed to load mapping"]
    ELSE IF file.doc.top # "object"
    THEN [mapping |-> mapping, msg |-> "JSON mapping must be an object"]
    ELSE [mapping |-> json_loads(file.doc), msg |-> "Mapping restored from JSON."]

\* lines 527-548
upload_csv(file, mapping) ==
    IF file.lines = <<>> THEN [mapping |-> mapping, msg |-> "Failed to load mapping"]
    ELSE LET got == csv_rows(file.lines)
         IN  IF got.raised THEN [mapping |-> mapping, msg |-> "Failed to load mapping"]
             ELSE IF DOMAIN got.newmap # {}
             THEN [mapping |-> got.newmap, msg |-> "Mapping restored from CSV."]
             ELSE [mapping |-> mapping, msg |-> "CSV mapping file parsing found no records."]

\* lines 517-550: the branch is chosen by the file name
upload_mapping(file, mapping) ==
    IF file.ext = "json" THEN upload_json(file, mapping) ELSE upload_csv(file, mapping)

-----------------------------------------------------------------------------
(* The mapping documents on their own: a mapping is exported, and a        *)
(* document, exported or written by hand, is uploaded.                     *)

\* st.session_state.mapping of a fresh session (line 448)
NoMapping == [k \in {} |-> NoCfg]

cfg_barcode_full ==
    [col |-> "sku", align |-> "Center", dx |-> 2, dy |-> -3, scale |-> 50,
     type |-> "Barcode EAN13", height_mm |-> 10]

\* entries as the UI writes them (line 604) and as a JSON upload leaves them
MapEntries ==
    {cfg_sku_text, cfg_city_ui, cfg_barcode_full, cfg_barcode_ui, cfg_center, cfg_barcode}

MapMappings ==
    {NoMapping}
    \cup UNION {[D -> MapEntries] : D \in {{"sku"}, {"city"}, {"sku", "city"}}}

csv_row(ph, dx) == <<ph, "sku", "Left", dx, "0.0", "1.0", "Text", "25.0">>

\* documents written by hand; malformed tells which the claim calls so
UserFiles ==
    {[ext |-> "json", parses |-> FALSE, malformed |-> TRUE],
     [ext |-> "json", parses |-> TRUE, malformed |-> TRUE,
      doc |-> [top |-> "array", members |-> <<>>]],
     [ext |-> "json", parses |-> TRUE, malformed |-> TRUE,
      doc |-> [top |-> "object",
               members |-> <<[key |-> "sku", kind |-> "string", str |-> "oops",
                              pairs |-> <<>>]>>]],
     [ext |-> "json", parses |-> TRUE, malformed |-> FALSE,
      doc |-> json_dumps([k \in {"sku"} |-> cfg_barcode_full])],
     [ext |-> "csv", malformed |-> TRUE, lines |-> <<>>],
     [ext |-> "csv", malformed |-> TRUE,
      lines |-> <<CsvHeader, csv_row("city", "1.0"), csv_row("sku", "abc")>>],
     [ext |-> "csv", malformed |-> TRUE,
      lines |-> <<CsvHeader, csv_row("city", "1.0"), csv_row("", "1.0")>>],
     [ext |-> "csv", malformed |-> TRUE,
      lines |-> <<Tail(CsvHeader), Tail(csv_row("sku", "1.0"))>>],
     [ext |-> "csv", malformed |-> FALSE,
      lines |-> <<CsvHeader, csv_row("city", "1.0"), csv_row("sku", "2.0")>>]}

InitMap ==
    /\ session_mapping \in MapMappings
    /\ sanitized_template = Idle
    /\ mapping_file = [held |-> FALSE]
    /\ exported = [made |-> FALSE]
    /\ map_before = session_mapping
    /\ map_msg = ""
    /\ RectIdle /\ FindIdle /\ SanIdle
    /\ EanIdle /\ BindIdle /\ GenIdle

\* lines 552-569: both documents are written from the current mapping
MappingDownload ==
    /\ ~exported.made /\ ~mapping_file.held
    /\ exported' = [made |-> TRUE, of |-> session_mapping,
                    json |-> json_dumps(session_mapping),
                    csv |-> csv_dump(session_mapping)]
    /\ UNCHANGED <<mapping_file, map_before, map_msg, tpl_vars,
                   rect_vars, find_vars, san_vars, ean_vars, bind_vars, gen_vars>>

\* lines 447-448: a new session starts with an empty mapping; the
\* downloaded documents are kept by the user
NewSession ==
    /\ exported.made /\ ~mapping_file.held /\ session_mapping # NoMapping
    /\ session_mapping' = NoMapping
    /\ map_before' = NoMapping
    /\ UNCHANGED <<mapping_file, exported, map_msg, sanitized_template,
                   rect_vars, find_vars, san_vars, ean_vars, bind_vars, gen_vars>>

\* lines 517-550 on the file the user picks
Upload(file, origin) ==
    /\ ~mapping_file.held
    /\ LET res == upload_mapping(file, session_mapping)
       IN  /\ session_mapping' = res.mapping
           /\ map_msg' = res.msg
    /\ map_before' = session_mapping
    /\ mapping_file' = [held |-> TRUE, origin |-> origin, ext |-> file.ext,
                        malformed |-> file.malformed]
    /\ UNCHANGED <<exported, sanitized_template,
                   rect_vars, find_vars, san_vars, ean_vars, bind_vars, gen_vars>>

\* an exported document is loaded back
MappingUploadExported ==
    /\ exported.made
    /\ \/ Upload([ext |-> "json", parses |-> TRUE, malformed |-> FALSE,
                  doc |-> exported.json], "export")
       \/ /\ ~exported.csv.raised
          /\ Upload([ext |-> "csv", malformed |-> FALSE,
                     lines |-> exported.csv.lines], "export")

MappingUpload == \E file \in UserFiles : Upload(file, "user")

NextMap == MappingDownload \/ NewSession \/ MappingUploadExported \/ MappingUpload

SpecMap == InitMap /\ [][NextMap]_vars

\* C14: a mapping exported to JSON or to CSV and loaded back is the mapping
\* that was exported, entry by entry and field by field.
C14_ExportLoadRoundTrips ==
    (mapping_file.held /\ mapping_file.origin = "export") =>
        session_mapping = exported.of

\* C15: a malformed mapping document is rejected wholesale: the mapping
\* after the load is the mapping before it.
C15_MalformedLoadChangesNothing ==
    (mapping_file.held /\ mapping_file.malformed) => session_mapping = map_before

-----------------------------------------------------------------------------
(* Line 114 of the sanitizer on the characters of raw.                     *)

\* raw holds at most MaxRaw characters
MaxRaw == 6

\* the characters of [A-Za-z0-9_] the texts use
RefNameChars == {"l", "t", "x"}

RawChars == {"&", ";"} \cup RefNameChars

\* the names line 114 keeps: lt, gt, amp, quot, apos
KeptNames ==
    {<<"l", "t">>, <<"g", "t">>, <<"a", "m", "p">>, <<"q", "u", "o", "t">>,
     <<"a", "p", "o", "s">>}

RECURSIVE ref_name_run(_, _)
\* [A-Za-z0-9_]+ is greedy: the characters of the class from index i on
ref_name_run(text, i) ==
    IF i > Len(text) \/ text[i] \notin RefNameChars THEN 0
    ELSE 1 + ref_name_run(text, i + 1)

\* the length of the match of &([A-Za-z0-9_]+); at index i, 0 without one
ref_len(text, i) ==
    LET n == ref_name_run(text, i + 1)
    IN  IF text[i] = "&" /\ n >= 1 /\ i + n + 1 <= Len(text) /\ text[i + n + 1] = ";"
        THEN n + 2 ELSE 0

ref_name(text, i) == SubSeq(text, i + 1, i + ref_len(text, i) - 2)

RECURSIVE sub_named_refs(_, _)
\* line 114: re.sub goes through raw once, left to right; a match whose name
\* is one of the five is written back, any other match is cut out, and the
\* scan goes on behind the match
sub_named_refs(text, i) ==
    IF i > Len(text) THEN <<>>
    ELSE IF ref_len(text, i) = 0 THEN <<text[i]>> \o sub_named_refs(text, i + 1)
    ELSE (IF ref_name(text, i) \in KeptNames
          THEN SubSeq(text, i, i + ref_len(text, i) - 1) ELSE <<>>)
         \o sub_named_refs(text, i + ref_len(text, i))

RawTexts == UNION {[1..n -> RawChars] : n \in 0..MaxRaw}

InitRefs ==
    /\ raw_text \in RawTexts
    /\ raw_subbed = [ran |-> FALSE]
    /\ svg_upload = Idle /\ sanitize_out = Idle
    /\ RectIdle /\ FindIdle /\ MapIdle
    /\ EanIdle /\ BindIdle /\ GenIdle /\ TplIdle

\* line 114
DropReferences ==
    /\ ~raw_subbed.ran
    /\ raw_subbed' = [ran |-> TRUE, out |-> sub_named_refs(raw_text, 1)]
    /\ UNCHANGED <<raw_text, svg_upload, sanitize_out, tpl_vars, rect_vars, find_vars,
                   map_vars, ean_vars, bind_vars, gen_vars>>

NextRefs == DropReferences

SpecRefs == InitRefs /\ [][NextRefs]_vars

\* where a named reference starts in a text
RefStarts(text) == {i \in 1..Len(text) : ref_len(text, i) > 0}

\* C21: after line 114 raw holds no named reference other than lt, gt,
\* amp, quot and apos.
C21_NoForeignReferenceRemains ==
    raw_subbed.ran =>
        \A i \in RefStarts(raw_subbed.out) : ref_name(raw_subbed.out, i) \in KeptNames

-----------------------------------------------------------------------------
(* One call of apply_mapping_to_svg on whatever a session can hold: the    *)
(* entries of an uploaded mapping document and the values of any data      *)
(* file.                                                                   *)

\* <text x="5" y="5">{{sku}}{{sku}}</text>
T_sku_twice ==
    Elem("text", Attrs2("x", "5", "y", "5"), <<"{{sku}}", "{{sku}}">>, <<>>, <<>>)

AnyPool == ElemPool \cup {T_sku_twice}

AnyTemplates == {SvgRoot(kids) : kids \in SeqsUpTo(AnyPool, MaxElems)}

\* entries a mapping document can install
cfg_barcode_plain == [col |-> "sku", type |-> "Barcode"]

cfg_barcode_badheight ==
    [col |-> "sku", type |-> "Barcode EAN13", height_mm |-> NotFloat]

cfg_barcode_neg ==
    [col |-> "sku", type |-> "Barcode EAN13", dx |-> NotFloat, dy |-> 0,
     scale |-> -50, height_mm |-> -10]

cfg_text_zero ==
    [col |-> "sku", align |-> "Left", dx |-> 0, dy |-> 0, scale |-> 0,
     type |-> "Text", height_mm |-> 25]

cfg_text_baddx == [col |-> "sku", type |-> "Text", dx |-> NotFloat, dy |-> 4]

AnySkuEntries ==
    {cfg_barcode, cfg_barcode_ui, cfg_sku_text, cfg_barcode_plain,
     cfg_barcode_badheight, cfg_barcode_neg, cfg_text_zero, cfg_text_baddx}

AnyMappings ==
    {[p \in {"sku", "city"} |-> IF p = "sku" THEN e ELSE c] :
        e \in AnySkuEntries, c \in {cfg_center, cfg_city_ui}}
    \cup {[p \in {"sku"} |-> e] : e \in AnySkuEntries}
    \cup {[p \in {"city"} |-> cfg_city_ui], NoMapping}

\* a Windows path, a value with backslash and n, and a value that reads as
\* a placeholder
AnySkuValues ==
    {Missing, NoneVal, StrVal(base_digits(0, 1)),
     StrVal(<<"C:", "\\D", "ata">>), StrVal(<<"a", "\\n", "b">>),
     StrVal(<<"{{city}}">>)}

AnyRecords ==
    {[c \in {"sku", "city"} |-> IF c = "sku" THEN v ELSE t] :
        v \in AnySkuValues, t \in {Missing, StrVal(<<"Berlin", "\n", "Germany">>)}}

InitBindAny ==
    /\ sanitized_template \in AnyTemplates
    /\ session_mapping \in AnyMappings
    /\ rec \in AnyRecords
    /\ lib_outcome = Idle
    /\ filled = Idle
    /\ bind_pc = "ready"
    /\ EanIdle /\ GenIdle /\ IoIdle

NextBindAny == Bind

SpecBindAny == InitBindAny /\ [][NextBindAny]_vars

-----------------------------------------------------------------------------
(* Claims about one bind of any session.                                   *)

Matches(el) == find_matches(itertext(el))

\* the element holds exactly one placeholder whose entry is of kind
\* Barcode EAN13
BarcodeKindSite(el) ==
    Len(Matches(el)) = 1 /\ map_type(session_mapping, Matches(el)[1]) = "Barcode EAN13"

\* the element as the barcode path and as the text path leave it
ByBarcodePath(el) ==
    bind_barcode(el, session_mapping, rec, lib_outcome, Matches(el)[1]).el

ByTextPath(el) == bind_text(el, session_mapping, rec, Matches(el)).el

\* C23: an element is handled by the barcode path exactly when it holds one
\* placeholder whose entry is of kind Barcode EAN13; any other element with
\* a placeholder is handled by the text path, and an element without
\* placeholders is left as it is.
C23_PathSelection ==
    (Bound /\ ~filled.raised) =>
      \A p \in TextPaths(sanitized_template) :
        LET el == ElemAt(sanitized_template, p)
            out == ElemAt(filled.doc, p)
        IN  /\ Matches(el) = <<>> => out = el
            /\ BarcodeKindSite(el) => out = ByBarcodePath(el)
            /\ (Matches(el) # <<>> /\ ~BarcodeKindSite(el)) => out = ByTextPath(el)

\* the element goes down the text path of the code
OnTextPath(el) ==
    /\ Matches(el) # <<>>
    /\ ~(Len(Matches(el)) = 1 /\ is_barcode_type(map_type(session_mapping, Matches(el)[1])))

RECURSIVE Exact(_)
\* the content with every placeholder replaced by exactly the record's
\* value of its column, the text around them as it was
Exact(content) ==
    IF content = <<>> THEN <<>>
    ELSE (IF Head(content) \in PlaceholderTokens
          THEN LET v == bound_value(session_mapping, rec, ph_name(Head(content)))
               IN  IF v.t = "none" THEN <<>> ELSE v.s
          ELSE <<Head(content)>>)
         \o Exact(Tail(content))

\* the lines an element shows: its text, then its runs
ShownLines(out) == <<out.text>> \o [i \in 1..Len(out.kids) |-> out.kids[i].text]

LinesOf(str) == IF splitlines(str) = <<>> THEN << <<>> >> ELSE splitlines(str)

\* C22: on the text path every placeholder is replaced by exactly the
\* record's value of its column, the other text stays, and no record value
\* makes the substitution raise.
C22_SubstitutionIsExact ==
    (Bound /\ \A p \in TextPaths(sanitized_template) :
                  LET el == ElemAt(sanitized_template, p)
                  IN  Matches(el) = <<>> \/ OnTextPath(el)) =>
      /\ ~filled.raised
      /\ \A p \in TextPaths(sanitized_template) :
            LET el == ElemAt(sanitized_template, p)
            IN  OnTextPath(el) =>
                  ShownLines(ElemAt(filled.doc, p)) = LinesOf(Exact(itertext(el)))

\* a numeric field as the claim reads it: the default when it is missing,
\* no number, or not positive
Effective(cfg, key, default) ==
    LET v == cfg_get(cfg, key, default)
    IN  IF v = NotFloat \/ v <= 0 THEN default ELSE v

NoBadEscape == \A c \in DOMAIN rec : ~repl_raises(rec[c].s)

\* C24: a numeric field of an entry that is missing or not positive counts
\* as its default (dx 0, dy 0, scale 1.0, height_mm 25.0) on the barcode
\* path and on the text path, and a bad numeric field does not make the
\* bind raise.
C24_NumericFieldsFallBack ==
    (Bound /\ NoBadEscape) =>
      /\ ~filled.raised
      /\ \A p \in TextPaths(sanitized_template) :
           LET el == ElemAt(sanitized_template, p)
               out == ElemAt(filled.doc, p)
               cfg0 == cfg_get(session_mapping, Matches(el)[1], NoCfg)
               cfg == cfg_of(session_mapping, Matches(el)[1])
           IN  /\ OnTextPath(el) =>
                     out.transform = el.transform \o
                       <<TfText("translate(" \o float_str(Effective(cfg0, "dx", 0)) \o ","
                                   \o float_str(Effective(cfg0, "dy", 0)) \o ")"),
                         TfText("scale(" \o float_str100(Effective(cfg0, "scale", 100))
                                   \o ")")>>
               /\ (Matches(el) # <<>> /\ ~OnTextPath(el) /\ out.tag = "g") =>
                     /\ out.transform[1].text
                          = "translate("
                              \o float_str(anchor_of(el, "x", "dx") + Effective(cfg, "dx", 0))
                              \o ","
                              \o float_str(anchor_of(el, "y", "dy") + Effective(cfg, "dy", 0))
                              \o ")"
                     /\ LibHeight # 0 =>
                           out.transform[2].num * (LibHeight * 100)
                             = out.transform[2].den
                                 * mm_to_px(Effective(cfg, "height_mm", 25))
                                 * Effective(cfg, "scale", 100)

====
